---- MODULE Spec2Model ----
(***************************************************************************)
(* A model of myRPC (Yuuxi777/7days_RPC) in parts, each with its own       *)
(* variables and its own specification:                                    *)
(*   - the Client (Go, Call, send, receive, Close): many goroutines issue  *)
(*     calls on one Client, one receive pump routes the replies;           *)
(*   - dialTimeout: the caller and the goroutine it spawns to build the    *)
(*     client, racing against the connect timer;                           *)
(*   - the Server on one connection: ServeConn, ServeCodec, handleRequest  *)
(*     with its worker goroutine, and Register;                            *)
(*   - the CenterRegistry (ServeHTTP, putServer, getAliveServers) and the  *)
(*     Heartbeat loop of one server;                                       *)
(*   - Discovery: MultiServersDiscovery and CenterRegistryDiscovery;       *)
(*   - the XClient: its cache of clients, dial and Call;                   *)
(*   - XClient.Broadcast and the goroutines it starts;                     *)
(*   - parseOption.                                                        *)
(* Every action is one step of the Go code between two points where        *)
(* another goroutine can interleave (a mutex acquisition, a codec read or  *)
(* write, a channel send or receive).                                      *)
(***************************************************************************)
EXTENDS Naturals, Integers, Sequences, FiniteSets, TLC

(* ------------------------------- bounds -------------------------------- *)

\* Goroutines that each issue one Go or Call on the client.
NumCallers == 2

\* Capacity of the buffered done channel the user supplies to Go (shared by
\* every Go call that passes it).
UserChanCap == 1

\* A Header.Error of the peer has at most MaxErrorLen characters.
MaxErrorLen == 1

\* dialTimeout is called with 0 .. MaxOpts options.
MaxOpts == 2

\* The values of opt.ConnectTimeout tried: 0 (no limit) and one positive limit.
ConnectTimeouts == {0, 1}

\* Requests the peer sends on the one server connection before it hangs up.
NumRequests == 2

\* The values of opt.HandleTimeout tried: 0 (no limit) and one positive limit.
HandleTimeouts == {0, 1}

\* Server addresses known to the registry model; an address is identified by
\* its rank in the lexical order sort.Strings uses.
NumAddrs == 2

\* The clock of the registry model runs from 0 to MaxTime.
MaxTime == 4

\* The values of CenterRegistry.timeout tried: 0 (never evict) and one
\* positive time to live.
Timeouts == {0, 2}

\* The values of Heartbeat's duration tried: 0 (use the default) and one
\* positive period.
Durations == {0, 1}

\* A list handed to Update or to NewMultiServersDiscovery has at most
\* MaxServers entries.
MaxServers == 2

\* The X-Myrpc-Servers header of a registry answer has at most MaxAnswer
\* characters.
MaxAnswer == 2

\* The random index a new discovery starts from is one of 0 .. MaxIndex.
MaxIndex == 2

\* The clock of the discovery model runs for MaxClock ticks.
MaxClock == 3

\* RoundRobin Gets followed on one unchanged list.
MaxGets == 3

\* Goroutines that use the one XClient.
NumXCallers == 2

\* Clients XDial builds for the XClient.
MaxClients == 2

\* XClient.Calls followed until they reach Client.Call.
NumXCalls == 2

\* Servers the discovery of a Broadcast can return.
NumServers == 2

(* -------------------------- program constants -------------------------- *)

\* Client.Call: make(chan *Call, 1)
CallDoneCap == 1

\* Client.Go with done == nil: make(chan *Call, 10)
DefaultDoneCap == 10

\* NewClientCodec: seq: 1
InitialSeq == 1

\* const MagicNumber = 0x3bef5c
MagicNumber == 3927900

\* const defaultTimeout = time.Minute * 5, in minutes (the unit of the
\* registry model's clock).
defaultTimeout == 5

(* ------------------------------ vocabulary ----------------------------- *)

Callers == 1 .. NumCallers

\* A nil *Call (what pending[seq] yields for a missing key).
NoCall == 0

\* Holders of a mutex: nobody, a caller goroutine, or the receive goroutine.
Free == 0
Receiver == NumCallers + 1

\* The done channel the user shares between Go calls; a call's own channel is
\* identified by the caller that allocated it.
UserChan == 0
Chans == Callers \cup {UserChan}

\* How a caller invokes the client: Call(ctx, ...), Go(..., nil),
\* Go(..., buffered done), Go(..., unbuffered done).
Apis == {"Call", "GoNil", "GoBuffered", "GoUnbuffered"}

\* The "Service.Method" each caller asks for: neighbouring callers ask for
\* different methods.
ServiceMethodOf(c) == IF c % 2 = 1 THEN "Foo.Sum" ELSE "Foo.Sleep"

\* Sequence numbers a call can carry; 0 is the zero value of Call.Seq.
Seqs == 1 .. NumCallers

VARIABLES
    seq,         \* Client.seq
    pending,     \* Client.pending: Seqs -> caller whose call is stored, or NoCall
    isClosed,    \* Client.isClosed
    isShutdown,  \* Client.isShutdown
    sending,     \* holder of Client.sending
    mu,          \* holder of Client.mu
    header,      \* Client.header, the scratch request header
    calls,       \* the Call object of each caller
    pc,          \* position of each caller goroutine
    doneCh,      \* contents of every done channel, oldest first
    connClosed,  \* the codec's connection has been closed (codec.Close ran)
    wire,        \* request frames that reached the connection, in order
    recvPc,      \* position of the receive goroutine
    h,           \* receive: the header just read
    recvCall,    \* receive / terminateCalls: the call being handled
    recvErr,     \* receive: err
    termTodo,    \* terminateCalls: calls of the range loop not yet visited
    closeFirst,  \* what the first Close invocation returned ("none" before it)
    closeLater,  \* the results every later Close invocation returned
    closedBefore, \* history: the connection was already closed when Close first closed the codec
    codecCloses, \* how many times Client.Close invoked codec.Close (2: more than once)
    assigned,    \* history: the Seq values registerCall handed out, in order
    doneBy,      \* history: per call, who sent it on its Done channel, in order
    downAtGo,    \* history: per call, whether the client was closed or shut down when Go was entered
    retErr       \* what Client.Call returned to each caller

clientVars == <<seq, pending, isClosed, isShutdown, sending, mu, header, calls, pc,
                doneCh, connClosed, wire, recvPc, h, recvCall, recvErr, termTodo,
                closeFirst, closeLater, closedBefore, codecCloses, assigned, doneBy, downAtGo, retErr>>

\* dialTimeout: the parent (the caller of dialTimeout) and the goroutine it
\* spawns to run f(conn, opt).
VARIABLES
    dPc,         \* position of dialTimeout
    gPc,         \* position of the spawned goroutine
    dTimeout,    \* opt.ConnectTimeout (0: no limit)
    dClient,     \* the named result `client`, shared with the goroutine
    dErr,        \* the named result `err`, shared with the goroutine
    dConn,       \* conn: "none" before net.DialTimeout, then "open" or "closed"
    dIsReturn,   \* isReturn has been closed
    dChClosed,   \* ch has been closed
    gTmp,        \* what f(conn, opt) returned, before it is assigned
    dRet,        \* what dialTimeout handed to its caller
    dTimedOut    \* history: the select took the time.After case

dialVars == <<dPc, gPc, dTimeout, dClient, dErr, dConn, dIsReturn, dChClosed,
              gTmp, dRet, dTimedOut>>

\* One connection of the Server: ServeConn / ServeCodec, the handleRequest
\* goroutine of each request and the worker goroutine each of them spawns.
VARIABLES
    sOption,     \* the Option the peer sent at the head of the connection
    sIn,         \* frames the peer sent that the server has not read yet
    sPc,         \* position of the ServeConn / ServeCodec goroutine
    sCur,        \* ServeCodec: the request whose error it is answering
    sOut,        \* response frames written to the connection, in order
    srvSending,  \* holder of ServeCodec's sending mutex
    wg,          \* ServeCodec's WaitGroup counter
    sCodecClosed, \* cc.Close() ran
    sConnClosed, \* conn.Close() ran
    sPanicked,   \* a goroutine panicked: the process is gone
    serviceMap,  \* Server.serviceMap: service name -> rcvr stored, or NoService
    regLog,      \* history: every Register invocation and how it ended
    reqs,        \* the request struct of each request read
    hdlPc,       \* position of each handleRequest goroutine
    wrkPc,       \* position of the goroutine handleRequest starts
    isReturn,    \* handleRequest's isReturn has been closed, per request
    timedOut,    \* history: handleRequest's select took the time.After case
    callErr      \* what svc.call returned, per request

serverVars == <<sOption, sIn, sPc, sCur, sOut, srvSending, wg, sCodecClosed,
                sConnClosed, sPanicked, serviceMap, regLog, reqs, hdlPc, wrkPc,
                isReturn, timedOut, callErr>>

\* The CenterRegistry, the HTTP requests it serves, and one Heartbeat task.
VARIABLES
    now,         \* time.Now()
    regTimeout,  \* CenterRegistry.timeout
    servers,     \* CenterRegistry.servers: address -> ServerItem.start, or NoItem
    getResult,   \* the X-Myrpc-Servers header of the last response (<< >>: not set)
    status,      \* the HTTP status of the last request served
    lastReq,     \* history: method and X-Myrpc-Server header of the last request
    reqFlip,     \* history: flips each time ServeHTTP serves a request
    hbPc,        \* position of Heartbeat and of the goroutine it starts
    hbErr,       \* Heartbeat: err
    hbPeriod,    \* Heartbeat: duration after the default is applied
    hbNext,      \* when the ticker's next tick is due
    hbLog        \* history: the result of every POST the heartbeat has sent

registryVars == <<now, regTimeout, servers, getResult, status, lastReq,
                  reqFlip, hbPc, hbErr, hbPeriod, hbNext, hbLog>>

\* One Discovery (a MultiServersDiscovery, or a CenterRegistryDiscovery with
\* the MultiServersDiscovery it embeds), the goroutines calling its methods
\* and the clock.
VARIABLES
    dsKind,      \* the dynamic type behind the Discovery interface
    dsServers,   \* MultiServersDiscovery.servers
    index,       \* MultiServersDiscovery.index
    dsTimeout,   \* CenterRegistryDiscovery.timeout
    lastUpdate,  \* CenterRegistryDiscovery.lastUpdate
    dsNow,       \* time.Now()
    dsPc,        \* CenterRegistryDiscovery.Get / GetAll: between Refresh and the embedded call
    dsMode,      \* CenterRegistryDiscovery.Get: mode
    dsRet,       \* what the method called last handed to its caller
    dsLast,      \* history: the last method run, and whether it sent a registry GET
    dsRR,        \* history: the RoundRobin selections made since servers was last assigned
    dsStart,     \* history: index when servers was last assigned
    dsBy         \* history: who assigned servers last

discoveryVars == <<dsKind, dsServers, index, dsTimeout, lastUpdate, dsNow,
                   dsPc, dsMode, dsRet, dsLast, dsRR, dsStart, dsBy>>

\* One XClient: its cache of clients, the goroutines that call dial, Call
\* and Close on it, and the clients XDial has built.
VARIABLES
    clients,     \* XClient.clients: address -> cached client, or NoClient
    xcMu,        \* holder of XClient.mu
    xcPc,        \* position of each goroutine using the XClient
    xcAddr,      \* rpcAddr, per goroutine
    xcClient,    \* the local `client` of dial or of call, per goroutine
    xcRet,       \* what dial or Call returned last, per goroutine
    cliState,    \* every client XDial can build: "none" (not built), "open", "shutdown", "closed"
    cliAddr,     \* history: the address each client was dialled for
    cliBy,       \* history: the function whose XDial built each client
    xcLook,      \* history: what dial's lookup found, per goroutine
    xcCalls      \* history: address and client of every XClient.Call that reached Client.Call

xclientVars == <<clients, xcMu, xcPc, xcAddr, xcClient, xcRet, cliState,
                 cliAddr, cliBy, xcLook, xcCalls>>

\* One XClient.Broadcast: the caller, and the goroutine it starts for each
\* server with the Client.Call that goroutine makes.
VARIABLES
    bcPc,        \* position of Broadcast
    bcServers,   \* servers, as GetAll returned it: the tasks 1 .. bcServers
    bcSpawned,   \* servers the range loop has started a goroutine for
    bcWg,        \* wg's counter
    bcMu,        \* holder of mu
    bcE,         \* e: the task whose error was recorded and that error
    replyDone,   \* replyDone
    cancelled,   \* cancel() was called: ctx.Done() is closed
    replyNil,    \* the caller passed reply == nil
    reply,       \* the caller's reply storage
    bcRet,       \* what Broadcast returned
    tPc,         \* position of each goroutine
    tErr,        \* err, what xc.call returned, per goroutine
    clonedReply, \* clonedReply, per goroutine
    tPending,    \* the call of each goroutine is in its client's pending map
    tDone,       \* the call of each goroutine is on its Done channel
    tCallErr,    \* call.Error, per goroutine
    bcFails,     \* history: the tasks that got the mutex with err != nil, in order
    bcOks,       \* history: the tasks that got the mutex with err == nil, in order
    bcSets,      \* history: the tasks that assigned the caller's reply storage
    tEarly,      \* history: the call completed before any failure was recorded
    parentDone   \* history: the context the caller passed was cancelled

broadcastVars == <<bcPc, bcServers, bcSpawned, bcWg, bcMu, bcE, replyDone,
                   cancelled, replyNil, reply, bcRet, tPc, tErr, clonedReply,
                   tPending, tDone, tCallErr, bcFails, bcOks, bcSets, tEarly,
                   parentDone>>

\* One call of parseOption, and a second one on what the first returned.
VARIABLES
    poPc,     \* position: "call", "parsed", "again"
    opts,     \* opts, the Options the pointers passed point to (or nil)
    poIn,     \* history: opts as they were when parseOption was called
    poRet,    \* what parseOption returned
    poAgain   \* what parseOption returned when given the Option of poRet

optionVars == <<poPc, opts, poIn, poRet, poAgain>>

vars == <<clientVars, dialVars, serverVars, registryVars,
         discoveryVars,
         xclientVars,
         broadcastVars,
         optionVars>>

(* ------------------------------- helpers ------------------------------- *)

\* type Call struct: the zero Call before Go fills it.
NewCall ==
    [api |-> "none", Seq |-> 0, ServiceMethod |-> "", Error |-> "nil",
     Text |-> << >>, Reply |-> "unset", Done |-> UserChan, DoneCap |-> 0]

\* cap(call.Done)
ChanCap(c) == calls[c].DoneCap

\* call.done() can proceed: the channel has room.
CanSignal(c) == Len(doneCh[calls[c].Done]) < ChanCap(c)

\* call.done(): call.Done <- call, by the subsystem `who`.
Signal(c, who) ==
    /\ doneCh' = [doneCh EXCEPT ![calls[c].Done] = Append(@, c)]
    /\ doneBy' = [doneBy EXCEPT ![c] = Append(@, who)]

\* Where a caller continues once Go has returned.
AfterGo(c) == IF calls[c].api = "Call" THEN "select" ELSE "returned"

\* receive: var h codec.Header, the zero header of each loop iteration.
NoHeader == [Seq |-> 0, Error |-> << >>]

\* The characters of a Header.Error: a letter and the per cent sign.
ErrorChars == {"e", "%"}

\* The texts a peer can put in Header.Error, the empty one included.
HeaderErrors == UNION {[1 .. n -> ErrorChars] : n \in 0 .. MaxErrorLen}

\* fmt.Errorf(format) without operands, as a sequence of pieces: "%%" prints
\* one per cent sign, "%" before another character is a verb with no operand
\* and prints "%!", the verb and "(MISSING)", a "%" that ends the format
\* prints "%!(NOVERB)", any other character prints itself.
RECURSIVE Errorf(_)
Errorf(t) ==
    IF t = << >> THEN << >>
    ELSE IF Head(t) # "%" THEN <<Head(t)>> \o Errorf(Tail(t))
    ELSE IF Len(t) = 1 THEN <<"%!(NOVERB)">>
    ELSE IF t[2] = "%" THEN <<"%">> \o Errorf(Tail(Tail(t)))
    ELSE <<"%!", t[2], "(MISSING)">> \o Errorf(Tail(Tail(t)))

\* removeCall that looks the call up but forgets the delete.
removeCallKeepsEntry(p, s) == p

\* removeCall's map update: delete(client.pending, seq).
removeCall(p, s) == [p EXCEPT ![s] = NoCall]

\* A status check that forgets isClosed.
AcceptingIgnoresClosed(shutdown, closed) == ~shutdown

\* registerCall's status check: the client accepts new calls.
Accepting(shutdown, closed) == ~(shutdown \/ closed)

\* registerCall that forgets client.seq++.
NextSeqStuck(s) == s

\* registerCall: client.seq++
NextSeq(s) == s + 1

\* codec.Close() = conn.Close(): nil on an open connection; closing a
\* connection twice is left undefined by io.Closer (a net.Conn reports an
\* error), so either result can come back.
CloseResults(closed) == IF closed THEN {"nil", "closeErr"} ELSE {"nil"}

(* -------------------------------- Init --------------------------------- *)

\* NewClientCodec: seq 1, an empty pending map, both flags false, the receive
\* goroutine started.
Init ==
    /\ seq = InitialSeq
    /\ pending = [s \in Seqs |-> NoCall]
    /\ isClosed = FALSE
    /\ isShutdown = FALSE
    /\ sending = Free
    /\ mu = Free
    /\ header = [ServiceMethod |-> "", Seq |-> 0, Error |-> ""]
    /\ calls = [c \in Callers |-> NewCall]
    /\ pc = [c \in Callers |-> "idle"]
    /\ doneCh = [ch \in Chans |-> << >>]
    /\ connClosed = FALSE
    /\ wire = << >>
    /\ recvPc = "readHeader"
    /\ h = NoHeader
    /\ recvCall = NoCall
    /\ recvErr = "nil"
    /\ termTodo = {}
    /\ closeFirst = "none"
    /\ closeLater = {}
    /\ closedBefore = FALSE
    /\ codecCloses = 0
    /\ assigned = << >>
    /\ doneBy = [c \in Callers |-> << >>]
    /\ downAtGo = [c \in Callers |-> FALSE]
    /\ retErr = [c \in Callers |-> "none"]

(* ------------------------- Go / Call / send ---------------------------- *)

\* The capacity of the done channel a call ends up with: Call makes one of
\* capacity 1, Go makes one of capacity 10 for done == nil and otherwise keeps
\* the channel of the user.
DoneCapOf(api) ==
    CASE api = "Call" -> CallDoneCap
      [] api = "GoNil" -> DefaultDoneCap
      [] api = "GoBuffered" -> UserChanCap
      [] OTHER -> 0

\* registerCall, under client.mu: a closed or shut down client rejects the
\* call (send then sets call.Error = ErrShutdown); otherwise the call gets
\* client.seq, goes into pending and client.seq grows.  On success send fills
\* the scratch header with the call's ServiceMethod and Seq (only holders of
\* sending touch the header).
registerCall(c, call) ==
    /\ mu = Free
    /\ IF Accepting(isShutdown, isClosed)
       THEN /\ calls' = [calls EXCEPT ![c] = [call EXCEPT !.Seq = seq]]
            /\ pending' = [pending EXCEPT ![seq] = c]
            /\ seq' = NextSeq(seq)
            /\ assigned' = Append(assigned, seq)
            /\ header' = [ServiceMethod |-> call.ServiceMethod,
                          Seq |-> seq, Error |-> ""]
            /\ pc' = [pc EXCEPT ![c] = "write"]
       ELSE /\ calls' = [calls EXCEPT ![c] = [call EXCEPT !.Error = "ErrShutdown"]]
            /\ pc' = [pc EXCEPT ![c] = "rejectDone"]
            /\ UNCHANGED <<pending, seq, assigned, header>>

\* send that does not wait for client.sending.
sendUnlocked(c, call) ==
    /\ sending' = c
    /\ registerCall(c, call)

\* send up to the write: client.sending.Lock(), then registerCall.
send(c, call) ==
    /\ sending = Free
    /\ sending' = c
    /\ registerCall(c, call)

\* Go that forgets the cap(done) == 0 check.
GoUnchecked(c, api) ==
    /\ pc[c] = "idle"
    /\ \A d \in Callers : d < c => pc[d] # "idle"
    /\ downAtGo' = [downAtGo EXCEPT ![c] = isShutdown \/ isClosed]
    /\ send(c, [NewCall EXCEPT !.api = api,
                               !.ServiceMethod = ServiceMethodOf(c),
                               !.Done = IF api = "GoBuffered" THEN UserChan ELSE c,
                               !.DoneCap = DoneCapOf(api)])
    /\ UNCHANGED <<isClosed, isShutdown, mu, doneCh, connClosed, wire, recvPc,
                   h, recvCall, recvErr, termTodo, closeFirst, closeLater,
                   closedBefore, codecCloses, doneBy, retErr>>

\* Go: an unbuffered done channel is a fatal misuse (log.Panic) before
\* anything else happens; otherwise the Call is allocated with the channel to
\* use (a fresh one for done == nil and for Client.Call) and handed to send.
\* Allocating the call and acquiring sending commute with every step of the
\* other goroutines that can follow them, so Go runs up to the codec write in
\* one step.  Callers are interchangeable, so they enter in the order of their
\* numbers.
Go(c, api) ==
    /\ pc[c] = "idle"
    /\ \A d \in Callers : d < c => pc[d] # "idle"
    /\ downAtGo' = [downAtGo EXCEPT ![c] = isShutdown \/ isClosed]
    /\ IF api = "GoUnbuffered"
       THEN /\ pc' = [pc EXCEPT ![c] = "panicked"]
            /\ calls' = [calls EXCEPT ![c].api = api]
            /\ UNCHANGED <<sending, pending, seq, assigned, header>>
       ELSE send(c, [NewCall EXCEPT !.api = api,
                                    !.ServiceMethod = ServiceMethodOf(c),
                                    !.Done = IF api = "GoBuffered" THEN UserChan ELSE c,
                                    !.DoneCap = DoneCapOf(api)])
    /\ UNCHANGED <<isClosed, isShutdown, mu, doneCh, connClosed, wire, recvPc,
                   h, recvCall, recvErr, termTodo, closeFirst, closeLater, closedBefore,
                   codecCloses, doneBy, retErr>>

\* send, rejected call: call.done(), then the deferred sending.Unlock().
SendRejectDone(c) ==
    /\ pc[c] = "rejectDone"
    /\ CanSignal(c)
    /\ Signal(c, "send")
    /\ sending' = Free
    /\ pc' = [pc EXCEPT ![c] = AfterGo(c)]
    /\ UNCHANGED <<seq, pending, isClosed, isShutdown, mu, header, calls,
                   connClosed, wire, recvPc, h, recvCall, recvErr, termTodo,
                   closeFirst, closeLater, closedBefore, codecCloses, assigned, downAtGo, retErr>>

\* send step 3: codec.Write(&client.header, call.Args).  On success the frame
\* built from the scratch header goes out (it is lost when the connection is
\* already closed: GobCodec.Write drops the Flush error) and send returns,
\* releasing sending.  On failure GobCodec.Write closes the connection and
\* send goes on to remove the call.
SendWrite(c) ==
    /\ pc[c] = "write"
    /\ \E ok \in BOOLEAN :
          IF ok
          THEN /\ wire' = IF connClosed THEN wire
                          ELSE Append(wire, [Seq |-> header.Seq,
                                             ServiceMethod |-> header.ServiceMethod,
                                             by |-> c])
               /\ sending' = Free
               /\ pc' = [pc EXCEPT ![c] = AfterGo(c)]
               /\ UNCHANGED connClosed
          ELSE /\ connClosed' = TRUE
               /\ pc' = [pc EXCEPT ![c] = "writeFailed"]
               /\ UNCHANGED <<wire, sending>>
    /\ UNCHANGED <<seq, pending, isClosed, isShutdown, mu, header, calls,
                   doneCh, recvPc, h, recvCall, recvErr, termTodo, closeFirst, closeLater, closedBefore,
                   codecCloses, assigned, doneBy, downAtGo, retErr>>

\* send that removes the call after a failed write and returns without
\* telling the call.
SendRemoveSilently(c) ==
    /\ pc[c] = "writeFailed"
    /\ mu = Free
    /\ pending' = removeCall(pending, calls[c].Seq)
    /\ sending' = Free
    /\ pc' = [pc EXCEPT ![c] = AfterGo(c)]
    /\ UNCHANGED <<seq, isClosed, isShutdown, mu, header, calls, doneCh, connClosed,
                   wire, recvPc, h, recvCall, recvErr, termTodo, closeFirst, closeLater, closedBefore,
                   codecCloses, assigned, doneBy, downAtGo, retErr>>

\* send after a failed write: call = client.removeCall(seq); a call still in
\* pending gets the write error, a call already taken by someone else is left
\* alone and send returns.
SendRemove(c) ==
    /\ pc[c] = "writeFailed"
    /\ mu = Free
    /\ pending' = removeCall(pending, calls[c].Seq)
    /\ IF pending[calls[c].Seq] # NoCall
       THEN /\ calls' = [calls EXCEPT ![pending[calls[c].Seq]].Error = "writeErr"]
            /\ pc' = [pc EXCEPT ![c] = "writeFailedDone"]
            /\ UNCHANGED sending
       ELSE /\ sending' = Free
            /\ pc' = [pc EXCEPT ![c] = AfterGo(c)]
            /\ UNCHANGED calls
    /\ UNCHANGED <<seq, isClosed, isShutdown, mu, header, doneCh, connClosed,
                   wire, recvPc, h, recvCall, recvErr, termTodo, closeFirst, closeLater, closedBefore,
                   codecCloses, assigned, doneBy, downAtGo, retErr>>

\* send after a failed write: call.done(), then the deferred sending.Unlock().
SendFailDone(c) ==
    /\ pc[c] = "writeFailedDone"
    /\ CanSignal(c)
    /\ Signal(c, "send")
    /\ sending' = Free
    /\ pc' = [pc EXCEPT ![c] = AfterGo(c)]
    /\ UNCHANGED <<seq, pending, isClosed, isShutdown, mu, header, calls,
                   connClosed, wire, recvPc, h, recvCall, recvErr, termTodo,
                   closeFirst, closeLater, closedBefore, codecCloses, assigned, downAtGo, retErr>>

\* Call's select, case call = <-call.Done: return call.Error.
CallDone(c) ==
    /\ pc[c] = "select"
    /\ doneCh[calls[c].Done] # << >>
    /\ doneCh' = [doneCh EXCEPT ![calls[c].Done] = Tail(@)]
    /\ retErr' = [retErr EXCEPT ![c] = calls[Head(doneCh[calls[c].Done])].Error]
    /\ pc' = [pc EXCEPT ![c] = "returnedDone"]
    /\ UNCHANGED <<seq, pending, isClosed, isShutdown, sending, mu, header,
                   calls, connClosed, wire, recvPc, h, recvCall, recvErr,
                   termTodo, closeFirst, closeLater, closedBefore, codecCloses, assigned, doneBy, downAtGo>>

\* Call that returns the cancellation error without removeCall.
CallCancelKeepsPending(c) ==
    /\ pc[c] = "select"
    /\ retErr' = [retErr EXCEPT ![c] = "callFailed"]
    /\ pc' = [pc EXCEPT ![c] = "returnedCancel"]
    /\ UNCHANGED <<seq, pending, isClosed, isShutdown, sending, mu, header,
                   calls, doneCh, connClosed, wire, recvPc, h, recvCall,
                   recvErr, termTodo, closeFirst, closeLater, closedBefore,
                   codecCloses, assigned, doneBy, downAtGo>>

\* Call's select, case <-ctx.Done() (the context may be cancelled at any
\* time): client.removeCall(call.Seq), then return the
\* "rpc client: call failed: ..." error.  A rejected call has Seq 0, which is
\* no key of pending.
CallCancel(c) ==
    /\ pc[c] = "select"
    /\ mu = Free
    /\ pending' = IF calls[c].Seq \in Seqs THEN removeCall(pending, calls[c].Seq)
                  ELSE pending
    /\ retErr' = [retErr EXCEPT ![c] = "callFailed"]
    /\ pc' = [pc EXCEPT ![c] = "returnedCancel"]
    /\ UNCHANGED <<seq, isClosed, isShutdown, sending, mu, header, calls,
                   doneCh, connClosed, wire, recvPc, h, recvCall, recvErr,
                   termTodo, closeFirst, closeLater, closedBefore, codecCloses, assigned, doneBy, downAtGo>>

\* The user receives from the done channel they share between their Go calls.
UserReceive ==
    /\ doneCh[UserChan] # << >>
    /\ doneCh' = [doneCh EXCEPT ![UserChan] = Tail(@)]
    /\ UNCHANGED <<seq, pending, isClosed, isShutdown, sending, mu, header,
                   calls, pc, connClosed, wire, recvPc, h, recvCall, recvErr,
                   termTodo, closeFirst, closeLater, closedBefore, codecCloses, assigned, doneBy, downAtGo,
                   retErr>>

(* ------------------------------- Close --------------------------------- *)

\* Close that forgets the isClosed check.
CloseUnchecked ==
    /\ mu = Free
    /\ isClosed' = TRUE
    /\ connClosed' = TRUE
    /\ closedBefore' = IF closeFirst = "none" THEN connClosed ELSE closedBefore
    /\ codecCloses' = IF codecCloses < 2 THEN codecCloses + 1 ELSE codecCloses
    /\ \E r \in CloseResults(connClosed) :
          IF closeFirst = "none"
          THEN closeFirst' = r /\ UNCHANGED closeLater
          ELSE closeLater' = closeLater \cup {r} /\ UNCHANGED closeFirst
    /\ UNCHANGED <<seq, pending, isShutdown, sending, mu, header, calls, pc,
                   doneCh, wire, recvPc, h, recvCall, recvErr, termTodo,
                   assigned, doneBy, downAtGo, retErr>>

\* Close, all of it under client.mu: a closed client answers ErrShutdown;
\* otherwise isClosed is set and the result of codec.Close() is returned.
\* The user may call Close any number of times.
Close ==
    /\ mu = Free
    /\ IF isClosed
       THEN /\ closeLater' = closeLater \cup {"ErrShutdown"}
            /\ UNCHANGED <<isClosed, connClosed, codecCloses, closeFirst, closedBefore>>
       ELSE /\ isClosed' = TRUE
            /\ closedBefore' = IF closeFirst = "none" THEN connClosed ELSE closedBefore
            /\ connClosed' = TRUE
            /\ codecCloses' = IF codecCloses < 2 THEN codecCloses + 1 ELSE codecCloses
            /\ \E r \in CloseResults(connClosed) :
                  IF closeFirst = "none"
                  THEN closeFirst' = r /\ UNCHANGED closeLater
                  ELSE closeLater' = closeLater \cup {r} /\ UNCHANGED closeFirst
    /\ UNCHANGED <<seq, pending, isShutdown, sending, mu, header, calls, pc,
                   doneCh, wire, recvPc, h, recvCall, recvErr, termTodo,
                   assigned, doneBy, downAtGo, retErr>>

(* ---------------------- receive / terminateCalls ----------------------- *)

\* Seq values of the request frames the peer has received.
Requested == {wire[i].Seq : i \in 1 .. Len(wire)}

\* receive: codec.ReadHeader(&h).  The peer answers requests it has received,
\* in any order, with an empty or a non-empty Header.Error; the read fails
\* when the stream ends or breaks, and always once the connection is closed.
ReceiveReadHeader ==
    /\ recvPc = "readHeader"
    /\ \/ /\ ~connClosed
          /\ \E s \in Requested, e \in HeaderErrors : h' = [Seq |-> s, Error |-> e]
          /\ recvPc' = "removeCall"
          /\ UNCHANGED recvErr
       \/ /\ recvErr' = "ioErr"
          /\ recvPc' = "lockSending"
          /\ UNCHANGED h
    /\ UNCHANGED <<seq, pending, isClosed, isShutdown, sending, mu, header,
                   calls, pc, doneCh, connClosed, wire, recvCall, termTodo,
                   closeFirst, closeLater, closedBefore, codecCloses, assigned, doneBy, downAtGo, retErr>>

\* receive: call := client.removeCall(h.Seq)
ReceiveRemove ==
    /\ recvPc = "removeCall"
    /\ mu = Free
    /\ recvCall' = pending[h.Seq]
    /\ pending' = removeCall(pending, h.Seq)
    /\ recvPc' = "readBody"
    /\ UNCHANGED <<seq, isClosed, isShutdown, sending, mu, header, calls, pc,
                   doneCh, connClosed, wire, h, recvErr, termTodo, closeFirst, closeLater, closedBefore,
                   codecCloses, assigned, doneBy, downAtGo, retErr>>

\* receive's switch.  No call: the body is read into nil and dropped.  A
\* header error: fmt.Errorf(h.Error) becomes call.Error, the body is dropped.  Otherwise the
\* body is decoded into call.Reply, and a failed read becomes call.Error.
\* err keeps the result of ReadBody.
ReceiveReadBody ==
    /\ recvPc = "readBody"
    /\ \E ok \in BOOLEAN :
          /\ recvErr' = IF ok THEN "nil" ELSE "ioErr"
          /\ CASE recvCall = NoCall ->
                    /\ recvPc' = IF ok THEN "readHeader" ELSE "lockSending"
                    /\ h' = NoHeader
                    /\ UNCHANGED calls
               [] recvCall # NoCall /\ h.Error # << >> ->
                    /\ calls' = [calls EXCEPT ![recvCall].Error = "headerErr",
                                              ![recvCall].Text = Errorf(h.Error)]
                    /\ recvPc' = "done"
                    /\ h' = NoHeader
               [] OTHER ->
                    /\ calls' = [calls EXCEPT ![recvCall] =
                                    IF ok THEN [@ EXCEPT !.Reply = "decoded"]
                                    ELSE [@ EXCEPT !.Error = "readingBody"]]
                    /\ recvPc' = "done"
                    /\ h' = NoHeader
    /\ UNCHANGED <<seq, pending, isClosed, isShutdown, sending, mu, header,
                   pc, doneCh, connClosed, wire, recvCall, termTodo,
                   closeFirst, closeLater, closedBefore, codecCloses, assigned, doneBy, downAtGo, retErr>>

\* receive that forgets call.done().
ReceiveDoneSkipped ==
    /\ recvPc = "done"
    /\ recvPc' = IF recvErr = "nil" THEN "readHeader" ELSE "lockSending"
    /\ recvCall' = NoCall
    /\ UNCHANGED <<seq, pending, isClosed, isShutdown, sending, mu, header,
                   calls, pc, doneCh, connClosed, wire, h, recvErr, termTodo,
                   closeFirst, closeLater, closedBefore, codecCloses, assigned,
                   doneBy, downAtGo, retErr>>

\* receive: call.done(), then the loop test `err == nil`.
ReceiveDone ==
    /\ recvPc = "done"
    /\ CanSignal(recvCall)
    /\ Signal(recvCall, "receive")
    /\ recvPc' = IF recvErr = "nil" THEN "readHeader" ELSE "lockSending"
    /\ recvCall' = NoCall
    /\ UNCHANGED <<seq, pending, isClosed, isShutdown, sending, mu, header,
                   calls, pc, connClosed, wire, h, recvErr, termTodo, closeFirst, closeLater, closedBefore,
                   codecCloses, assigned, downAtGo, retErr>>

\* terminateCalls that goes for client.mu without client.sending.
TerminateLockSendingSkipped ==
    /\ recvPc = "lockSending"
    /\ recvPc' = "lockMu"
    /\ UNCHANGED <<seq, pending, isClosed, isShutdown, sending, mu, header, calls, pc,
                   doneCh, connClosed, wire, h, recvCall, recvErr, termTodo,
                   closeFirst, closeLater, closedBefore, codecCloses, assigned, doneBy, downAtGo, retErr>>

\* terminateCalls: client.sending.Lock()
TerminateLockSending ==
    /\ recvPc = "lockSending"
    /\ sending = Free
    /\ sending' = Receiver
    /\ recvPc' = "lockMu"
    /\ UNCHANGED <<seq, pending, isClosed, isShutdown, mu, header, calls, pc,
                   doneCh, connClosed, wire, h, recvCall, recvErr, termTodo,
                   closeFirst, closeLater, closedBefore, codecCloses, assigned, doneBy, downAtGo, retErr>>

\* terminateCalls: client.mu.Lock(); isShutdown = true; the range loop over
\* pending starts.
TerminateLockMu ==
    /\ recvPc = "lockMu"
    /\ mu = Free
    /\ mu' = Receiver
    /\ isShutdown' = TRUE
    /\ termTodo' = {s \in Seqs : pending[s] # NoCall}
    /\ recvPc' = "range"
    /\ UNCHANGED <<seq, pending, isClosed, sending, header, calls, pc, doneCh,
                   connClosed, wire, h, recvCall, recvErr, closeFirst, closeLater, closedBefore,
                   codecCloses, assigned, doneBy, downAtGo, retErr>>

\* terminateCalls, one iteration of the range loop (in any order):
\* call.Error = err.
TerminateSetError(s) ==
    /\ recvPc = "range"
    /\ s \in termTodo
    /\ termTodo' = termTodo \ {s}
    /\ recvCall' = pending[s]
    /\ calls' = [calls EXCEPT ![pending[s]].Error = recvErr]
    /\ recvPc' = "rangeDone"
    /\ UNCHANGED <<seq, pending, isClosed, isShutdown, sending, mu, header,
                   pc, doneCh, connClosed, wire, h, recvErr, closeFirst, closeLater, closedBefore,
                   codecCloses, assigned, doneBy, downAtGo, retErr>>

\* terminateCalls that forgets call.done().
TerminateDoneSkipped ==
    /\ recvPc = "rangeDone"
    /\ recvCall' = NoCall
    /\ recvPc' = "range"
    /\ UNCHANGED <<seq, pending, isClosed, isShutdown, sending, mu, header,
                   calls, pc, doneCh, connClosed, wire, h, recvErr, termTodo,
                   closeFirst, closeLater, closedBefore, codecCloses, assigned,
                   doneBy, downAtGo, retErr>>

\* terminateCalls, the same iteration: call.done().
TerminateDone ==
    /\ recvPc = "rangeDone"
    /\ CanSignal(recvCall)
    /\ Signal(recvCall, "terminateCalls")
    /\ recvCall' = NoCall
    /\ recvPc' = "range"
    /\ UNCHANGED <<seq, pending, isClosed, isShutdown, sending, mu, header,
                   calls, pc, connClosed, wire, h, recvErr, termTodo, closeFirst, closeLater, closedBefore,
                   codecCloses, assigned, downAtGo, retErr>>

\* terminateCalls returns: the deferred mu.Unlock() and sending.Unlock(); the
\* receive goroutine ends.
TerminateReturn ==
    /\ recvPc = "range"
    /\ termTodo = {}
    /\ mu' = Free
    /\ sending' = Free
    /\ recvPc' = "exited"
    /\ UNCHANGED <<seq, pending, isClosed, isShutdown, header, calls, pc,
                   doneCh, connClosed, wire, h, recvCall, recvErr, termTodo,
                   closeFirst, closeLater, closedBefore, codecCloses, assigned, doneBy, downAtGo, retErr>>

(* ---------------------------- specification ---------------------------- *)


(* ------------------------------- claims -------------------------------- *)

\* Callers whose call sits in pending.
InPending(c) == \E s \in Seqs : pending[s] = c

\* A request frame written by caller c reached the connection.
OnWire(c) == \E i \in 1 .. Len(wire) : wire[i].by = c

\* C1: every call is sent on its Done channel at most once, whatever the
\* interleaving of receive, a failed write in send, terminateCalls and the
\* cancellation in Call.
C1_DoneAtMostOnce == \A c \in Callers : Len(doneBy[c]) <= 1

\* C1 witness: the pump signalled a call whose Call was cancelled meanwhile,
\* terminateCalls signalled another call, and the pump has ended.
C1_Witness ==
    \E c, d \in Callers :
        /\ c # d
        /\ pc[c] = "returnedCancel" /\ doneBy[c] = <<"receive">>
        /\ doneBy[d] = <<"terminateCalls">>
        /\ recvPc = "exited"

\* C2: the Seq values registerCall assigned are exactly 1, 2, ..., k in this
\* order; client.seq is k + 1; the registered calls carry these k values, one
\* each; a rejected registration consumed none.
C2_SeqPrefix ==
    /\ assigned = [i \in 1 .. Len(assigned) |-> i]
    /\ seq = Len(assigned) + 1
    /\ Cardinality({c \in Callers : calls[c].Seq # 0}) = Len(assigned)
    /\ \A c \in Callers : calls[c].Seq \in 0 .. Len(assigned)
    /\ \A c, d \in Callers : c # d /\ calls[c].Seq # 0 => calls[c].Seq # calls[d].Seq
    /\ \A c \in Callers : calls[c].Error = "ErrShutdown" => calls[c].Seq = 0

\* C2 witness: one call was registered with Seq 1, then a call was rejected
\* with ErrShutdown, and the counter stands at 2.
C2_Witness ==
    /\ assigned = <<1>>
    /\ seq = 2
    /\ \E c \in Callers : calls[c].Error = "ErrShutdown" /\ pc[c] = "returned"

\* C3: the request frames on the connection are in strictly increasing Seq
\* order, and every frame carries the Seq and the ServiceMethod of the call
\* whose send wrote it.
C3_WireInSeqOrder ==
    /\ \A i, j \in 1 .. Len(wire) : i < j => wire[i].Seq < wire[j].Seq
    /\ \A i \in 1 .. Len(wire) :
          /\ wire[i].Seq = calls[wire[i].by].Seq
          /\ wire[i].ServiceMethod = calls[wire[i].by].ServiceMethod

\* C3 witness: two goroutines have each written a frame.
C3_Witness == Len(wire) = 2 /\ wire[1].by # wire[2].by

\* C4 (as claimed): once terminateCalls(e) has returned, pending is empty and
\* every call it visited has Error = e.
C4_TerminateEmptiesPending ==
    recvPc = "exited" =>
        /\ \A s \in Seqs : pending[s] = NoCall
        /\ \A c \in Callers :
              (\E i \in 1 .. Len(doneBy[c]) : doneBy[c][i] = "terminateCalls")
                  => calls[c].Error = recvErr

\* C5: a Go or Call entered when the client was already closed or shut down
\* is rejected: the call gets no Seq, never enters pending, no frame of it
\* is written, its Error is ErrShutdown, and send signals it on Done once
\* (the only thing that can delay send is a full done channel of the user);
\* a Call that returns by Done returns ErrShutdown.
C5_FailFastWhenDown ==
    \A c \in Callers :
        downAtGo[c] /\ calls[c].api # "GoUnbuffered" =>
            /\ calls[c].Seq = 0
            /\ calls[c].Error = "ErrShutdown"
            /\ ~InPending(c)
            /\ ~OnWire(c)
            /\ doneBy[c] = IF pc[c] = "rejectDone" THEN << >> ELSE <<"send">>
            /\ pc[c] = "returnedDone" => retErr[c] = "ErrShutdown"

\* C5 witness: a Call entered on a closed or shut down client has returned
\* ErrShutdown while an earlier call of the same client was registered.
C5_Witness ==
    \E c, d \in Callers :
        /\ downAtGo[c] /\ pc[c] = "returnedDone" /\ retErr[c] = "ErrShutdown"
        /\ calls[d].Seq # 0

\* C6: when Call returns the cancellation error its call is not in pending;
\* a header that receive looks up afterwards with that Seq finds no call; and
\* the step that handles a header without a call only reads the body: it
\* signals no Done channel, leaves pending and every call as they are, and
\* receive goes on to the next header when the body was read.
C6_CancelledCallIsDropped ==
    [][\A c \in Callers :
          /\ pc'[c] = "returnedCancel" => \A s \in Seqs : pending'[s] # c
          /\ (pc[c] = "returnedCancel" /\ recvPc = "removeCall" /\ recvPc' = "readBody"
                 /\ h.Seq = calls[c].Seq)
                => recvCall' = NoCall
          /\ (recvPc = "readBody" /\ recvCall = NoCall /\ recvPc' # "readBody")
                => /\ doneCh' = doneCh
                   /\ doneBy' = doneBy
                   /\ pending' = pending
                   /\ calls' = calls
                   /\ recvErr' = "nil" => recvPc' = "readHeader"
      ]_vars

\* C6 witness: Call has returned the cancellation error and receive is about
\* to drop the body of a reply that carries the Seq of that call.
C6_Witness ==
    \E c \in Callers :
        /\ pc[c] = "returnedCancel" /\ retErr[c] = "callFailed"
        /\ recvPc = "readBody" /\ recvCall = NoCall /\ h.Seq = calls[c].Seq

\* C7 (as claimed): once Call has returned the cancellation error, nothing
\* writes the caller's reply storage or the call's Error.
C7_NoWriteAfterCancel ==
    [][\A c \in Callers :
          pc[c] = "returnedCancel" =>
              /\ calls'[c].Reply = calls[c].Reply
              /\ calls'[c].Error = calls[c].Error
      ]_vars

\* The call has reached a terminal event and whoever terminated it is through
\* with it.
Settled(c) ==
    /\ recvCall # c
    /\ pc[c] \notin {"idle", "panicked", "write", "writeFailed", "rejectDone", "writeFailedDone"}
    /\ \/ calls[c].Error # "nil"
       \/ calls[c].Reply = "decoded"
       \/ pc[c] = "returnedCancel"

\* The subsystem that terminated a call, read off the call's outcome.
Terminator(c) ==
    CASE calls[c].Error \in {"ErrShutdown", "writeErr"} -> "send"
      [] calls[c].Error = "ioErr" -> "terminateCalls"
      [] OTHER -> "receive"

\* C8 (as claimed): every call that reached a terminal event, cancellation
\* included, has had its Done channel written exactly once.
C8_DoneExactlyOnce == \A c \in Callers : Settled(c) => Len(doneBy[c]) = 1

\* C8 (amended): a call terminated by a reply, an error reply, a transport
\* error or the shutdown rejection has had its Done channel written exactly
\* once, by the subsystem that terminated it; a call that is only cancelled
\* has had no write on Done, and no call has more than one.
C8_DoneOnceUnlessCancelled ==
    \A c \in Callers :
        /\ Len(doneBy[c]) <= 1
        /\ Settled(c) =>
              IF calls[c].Error # "nil" \/ calls[c].Reply = "decoded"
              THEN doneBy[c] = <<Terminator(c)>>
              ELSE doneBy[c] = << >>

\* C8 witness: one call was ended by terminateCalls and its Call returned
\* that error, another was cancelled and never signalled.
C8_Witness ==
    \E c, d \in Callers :
        /\ pc[c] = "returnedDone" /\ doneBy[c] = <<"terminateCalls">>
        /\ pc[d] = "returnedCancel" /\ doneBy[d] = << >> /\ calls[d].Seq # 0
        /\ recvPc = "exited"

\* C9 (as claimed): the first Close returns nil, every later Close returns
\* ErrShutdown, and the codec is closed by Close once.
C9_FirstCloseNil ==
    /\ closeFirst \in {"none", "nil"}
    /\ closeLater \subseteq {"ErrShutdown"}
    /\ codecCloses <= 1

\* C9 (amended): the first Close marks the client closed, closes the codec
\* and returns what codec.Close returned, which is nil when the connection
\* was still open; every later Close returns ErrShutdown and Close closes the
\* codec once.
C9_CloseOnce ==
    /\ closeFirst # "none" => isClosed /\ connClosed /\ codecCloses = 1
    /\ closeFirst = "none" => ~isClosed /\ codecCloses = 0 /\ closeLater = {}
    /\ closeFirst # "none" /\ ~closedBefore => closeFirst = "nil"
    /\ closeLater \subseteq {"ErrShutdown"}

\* C9 witness: Close was called twice on an open connection: nil, then
\* ErrShutdown.
C9_Witness ==
    /\ closeFirst = "nil" /\ ~closedBefore
    /\ closeLater = {"ErrShutdown"}
    /\ codecCloses = 1

\* C10: a Go with done == nil runs with a done channel of its own of capacity
\* at least 1; a Go with an unbuffered done channel panics and leaves no
\* trace: its call has no Seq, is not in pending, has no frame written and
\* is never signalled, and client.seq counts the other calls only.
C10_GoChecksDone ==
    /\ \A c \in Callers :
          calls[c].api = "GoNil" =>
              /\ calls[c].DoneCap >= 1
              /\ calls[c].Done = c
              /\ pc[c] # "panicked"
    /\ \A c \in Callers :
          calls[c].api = "GoUnbuffered" =>
              /\ pc[c] = "panicked"
              /\ calls[c].Seq = 0
              /\ ~InPending(c)
              /\ ~OnWire(c)
              /\ doneBy[c] = << >>
    /\ seq = InitialSeq
             + Cardinality({c \in Callers : calls[c].api # "GoUnbuffered" /\ calls[c].Seq # 0})

\* C10 witness: one Go panicked on an unbuffered channel while the call of a
\* Go with done == nil is pending on the same client.
C10_Witness ==
    \E c, d \in Callers :
        /\ calls[c].api = "GoUnbuffered" /\ pc[c] = "panicked"
        /\ calls[d].api = "GoNil" /\ InPending(d) /\ calls[d].DoneCap = DefaultDoneCap

\* A reply or an error has been routed to the call: call.done() was called.
Routed(c) == doneBy[c] # << >>

\* send is between registerCall and its return: the write is under way, or
\* it failed and the call is about to be removed.
InSend(c) == pc[c] \in {"write", "writeFailed"}

\* C30 as stated: in every reachable client state a call is in the pending
\* map if and only if its request frame has been written to the connection
\* and its reply or error has not yet been routed to it.
C30_PendingIffWrittenUnrouted ==
    \A c \in Callers : InPending(c) <=> (OnWire(c) /\ ~Routed(c))

\* C30, amended: a call in the pending map sits there under its own Seq, and
\* its frame has been written, or its send is still under way, or the write
\* went to a connection already closed; the only thing ever routed to a
\* call still in the map is the error of terminateCalls.  A call whose frame
\* has been written is in the map unless receive has taken it out to route
\* its reply or error, or Call has taken it out when its context ended.
C30_PendingBetweenRegisterAndRemove ==
    \A c \in Callers :
        /\ InPending(c) =>
              /\ calls[c].Seq \in Seqs
              /\ pending[calls[c].Seq] = c
              /\ OnWire(c) \/ InSend(c) \/ connClosed
              /\ Routed(c) => doneBy[c] = <<"terminateCalls">>
        /\ (OnWire(c) /\ ~InPending(c)) =>
              \/ recvCall = c
              \/ doneBy[c] = <<"receive">>
              \/ pc[c] = "returnedCancel"

\* One call is written, unanswered and in the map while receive has routed
\* the reply of another, which has left the map.
C30_Witness ==
    \E c, d \in Callers :
        /\ InPending(c) /\ OnWire(c) /\ ~Routed(c)
        /\ OnWire(d) /\ ~InPending(d) /\ doneBy[d] = <<"receive">>
        /\ calls[d].Reply = "decoded"


\* The calls other than c are as they were: Reply, Error and Done untouched.
OthersUntouched(c) ==
    \A d \in Callers :
        d # c => /\ calls'[d] = calls[d]
                 /\ doneBy'[d] = doneBy[d]

\* What receive does between taking a call for a header and signalling it,
\* with `text` the Error the call gets for the header error h.Error: the call
\* taken for a header with Seq s is the call registered with Seq s (or
\* none); with an empty Header.Error the body is decoded into that call's
\* Reply (a failed read of the body becomes its Error), with a non-empty one
\* the call gets the Error `text` and its Reply is left alone; then that call
\* alone is signalled on Done; no other call's Reply, Error or Done changes.
RoutedBySeq(text) ==
    /\ (recvPc = "removeCall" /\ recvPc' = "readBody") =>
          /\ recvCall' # NoCall =>
                /\ calls[recvCall'].Seq = h.Seq
                /\ pending[h.Seq] = recvCall'
          /\ calls' = calls
          /\ doneBy' = doneBy
    /\ (recvPc = "readBody" /\ recvPc' # "readBody" /\ recvCall # NoCall) =>
          /\ OthersUntouched(recvCall)
          /\ doneBy' = doneBy
          /\ recvPc' = "done"
          /\ IF h.Error = << >>
             THEN \/ /\ recvErr' = "nil"
                     /\ calls'[recvCall] =
                            [calls[recvCall] EXCEPT !.Reply = "decoded"]
                  \/ /\ recvErr' # "nil"
                     /\ calls'[recvCall] =
                            [calls[recvCall] EXCEPT !.Error = "readingBody"]
             ELSE calls'[recvCall] =
                      [calls[recvCall] EXCEPT !.Error = "headerErr",
                                              !.Text = text]
    /\ (recvPc = "done" /\ recvPc' # "done") =>
          /\ OthersUntouched(recvCall)
          /\ calls' = calls
          /\ doneBy'[recvCall] = Append(doneBy[recvCall], "receive")

\* C31 (as claimed): in whatever order the responses arrive, a response whose
\* header carries Seq s is routed to the call registered with Seq s: with an
\* empty Header.Error the body is decoded into its Reply, with a non-empty
\* Header.Error that text becomes its Error and the body is discarded; no
\* other call's Reply, Error or Done is touched.
C31_ReplyRoutedBySeq == [][RoutedBySeq(h.Error)]_vars

\* The routing of C31 with the Error the code builds: fmt.Errorf(h.Error),
\* which is the text of the header only when the text holds no per cent sign.
RoutedBySeqThroughErrorf ==
    /\ [][RoutedBySeq(Errorf(h.Error))]_vars
    /\ [](\A t \in HeaderErrors :
             (\A i \in 1 .. Len(t) : t[i] # "%") => Errorf(t) = t)

\* The responses arrived out of order: the call with Seq 2 got its reply
\* decoded and was signalled by receive while the call with Seq 1 is still
\* pending with its frame written, untouched.
RoutedOutOfOrder ==
    \E c, d \in Callers :
        /\ calls[c].Seq = 2 /\ calls[c].Reply = "decoded"
        /\ doneBy[c] = <<"receive">>
        /\ calls[d].Seq = 1 /\ InPending(d) /\ OnWire(d)
        /\ calls[d].Reply = "unset" /\ calls[d].Error = "nil"
        /\ doneBy[d] = << >>

\* A Header.Error that is one per cent sign reached a call as another text.
HeaderErrorMangled ==
    \E c \in Callers :
        /\ calls[c].Error = "headerErr"
        /\ calls[c].Text = <<"%!(NOVERB)">>
        /\ doneBy[c] = <<"receive">>

\* C32: when codec.Write fails in send the call leaves pending; if it was
\* still there its Error becomes the write error and send signals it on Done,
\* once, and then releases sending; if it was already gone nothing is
\* signalled and no call changes, and send releases sending at once.  A call
\* that got the write error has been signalled exactly once, by send, as soon
\* as send has returned.
C32_WriteFailureFailsCall ==
    /\ [][\A c \in Callers :
             /\ (pc[c] = "writeFailed" /\ pc'[c] # "writeFailed") =>
                   /\ pending'[calls[c].Seq] = NoCall
                   /\ doneBy' = doneBy
                   /\ IF InPending(c)
                      THEN /\ calls'[c] = [calls[c] EXCEPT !.Error = "writeErr"]
                           /\ pc'[c] = "writeFailedDone"
                           /\ sending' = c
                      ELSE /\ calls' = calls
                           /\ pc'[c] = AfterGo(c)
                           /\ sending' = Free
             /\ (pc[c] = "writeFailedDone" /\ pc'[c] # "writeFailedDone") =>
                   /\ doneBy'[c] = Append(doneBy[c], "send")
                   /\ calls' = calls
                   /\ pc'[c] = AfterGo(c)
                   /\ sending' = Free
       ]_vars
    /\ [](\A c \in Callers :
             /\ pc[c] \in {"write", "writeFailed", "writeFailedDone"} => sending = c
             /\ calls[c].Error = "writeErr" =>
                   /\ ~InPending(c)
                   /\ doneBy[c] = IF pc[c] = "writeFailedDone" THEN << >>
                                  ELSE <<"send">>)

\* C32 witness: a write failed, its call got the write error and was
\* signalled by send, which has released sending; the call is gone from
\* pending while a call written before it is still there.
C32_Witness ==
    \E c, d \in Callers :
        /\ calls[c].Error = "writeErr" /\ doneBy[c] = <<"send">>
        /\ pc[c] \in {"select", "returned"}
        /\ ~InPending(c)
        /\ sending = Free
        /\ InPending(d) /\ OnWire(d)

\* After a failed write send found its call already gone from pending.
WriteFailedCallGone ==
    \E c \in Callers : pc[c] = "writeFailed" /\ ~InPending(c)

\* C33: whoever holds client.mu across steps (terminateCalls) holds
\* client.sending too and took sending first, in an earlier step; nobody takes
\* sending while holding mu; the holder of mu is never waiting for sending.
\* The other critical sections of mu (registerCall and removeCall, inside
\* send with sending held or on their own in receive and Call, and Close)
\* are single steps that wait for mu to be free and take no other lock.
C33_SendingBeforeMu ==
    /\ [](mu # Free =>
             /\ sending = mu
             /\ mu = Receiver
             /\ recvPc \in {"range", "rangeDone"})
    /\ [][/\ (mu = Free /\ mu' # Free) =>
                /\ sending = mu'
                /\ sending' = mu'
          /\ (sending' # sending /\ sending' # Free) =>
                /\ sending = Free
                /\ mu = Free
          /\ (sending # Free /\ sending' = Free /\ mu = sending) => mu' = Free
      ]_vars

\* C33 witness: terminateCalls holds sending and mu, in the middle of its
\* loop, while a send that registered its call earlier has returned and
\* another caller has yet to call Go.
C33_Witness ==
    /\ mu = Receiver /\ sending = Receiver
    /\ recvPc = "rangeDone"
    /\ \E c, d \in Callers : pc[c] = "idle" /\ InPending(d) /\ OnWire(d)

\* C37 (as claimed): with buffered done channels, one shared by several calls
\* included, the Done sends of receive and of terminateCalls never have to
\* wait, so terminateCalls never sits on sending and mu.
C37_DoneNeverBlocks ==
    /\ recvPc \in {"done", "rangeDone"} => CanSignal(recvCall)
    /\ \A c \in Callers :
          pc[c] \in {"rejectDone", "writeFailedDone"} => CanSignal(c)

\* terminateCalls waits in call.done() for room on the done channel two Go
\* calls share, holding sending and mu: the completion of the first call was
\* never consumed.
DoneBlocksTerminate ==
    /\ recvPc = "rangeDone"
    /\ ~CanSignal(recvCall)
    /\ calls[recvCall].api = "GoBuffered"
    /\ mu = Receiver /\ sending = Receiver
    /\ ~ENABLED Close

\* C38 (as claimed): a call that is pending when the client is closed is
\* eventually signalled on Done, once, with a non-nil Error.
C38_CloseFailsPending ==
    \A c \in Callers :
        (isClosed /\ InPending(c))
            ~> (Len(doneBy[c]) = 1 /\ calls[c].Error # "nil")

\* C38 (amended): a call that is pending when the client is closed is
\* eventually signalled on Done, once, with a non-nil Error or, when receive
\* had already read the header of its response, with its reply decoded; or
\* its Call gives it up because its context ended, and then it is not
\* signalled.
C38_ClosePendingEnds ==
    \A c \in Callers :
        (isClosed /\ InPending(c))
            ~> \/ /\ Len(doneBy[c]) = 1
                  /\ calls[c].Error # "nil" \/ calls[c].Reply = "decoded"
               \/ pc[c] = "returnedCancel" /\ ~InPending(c)

\* C38 witness: the client was closed on an open connection, the read of
\* receive failed and terminateCalls has signalled a pending call with that
\* error.
C38_Witness ==
    \E c \in Callers :
        /\ isClosed /\ closeFirst = "nil" /\ ~closedBefore
        /\ InPending(c)
        /\ doneBy[c] = <<"terminateCalls">>
        /\ calls[c].Error = "ioErr"
        /\ recvPc = "exited"

(* ============================ dialTimeout ============================== *)

\* The values a *Client result and an error result can hold.
NilClient == "nil"
NewClientOk == [client |-> "client", err |-> "nil"]

\* What f(conn, opt) = NewClient can return: a client; an error for an
\* unknown codec type (the connection is left open); an error from sending
\* the options (NewClient closes the connection).  On a closed connection
\* the options cannot be sent.
NewClientResults(conn) ==
    IF conn = "open"
    THEN {NewClientOk,
          [client |-> NilClient, err |-> "codecErr"],
          [client |-> NilClient, err |-> "optionsErr"]}
    ELSE {[client |-> NilClient, err |-> "codecErr"],
          [client |-> NilClient, err |-> "optionsErr"]}

\* Nothing has been handed to the caller yet.
NoResult == [client |-> "none", err |-> "none"]

\* Before dialTimeout is called.
DialInit ==
    /\ dPc = "idle"
    /\ gPc = "none"
    /\ dTimeout = 0
    /\ dClient = NilClient
    /\ dErr = "nil"
    /\ dConn = "none"
    /\ dIsReturn = FALSE
    /\ dChClosed = FALSE
    /\ gTmp = NoResult
    /\ dRet = NoResult
    /\ dTimedOut = FALSE

\* opt, err := parseOption(opts...): more than one option is an error and
\* dialTimeout returns it at once; otherwise opt.ConnectTimeout is `timeout`.
DialParseOption(nopts, timeout) ==
    /\ dPc = "idle"
    /\ IF nopts > 1
       THEN /\ dErr' = "optsErr"
            /\ dRet' = [client |-> NilClient, err |-> "optsErr"]
            /\ dPc' = "returned"
            /\ UNCHANGED dTimeout
       ELSE /\ dTimeout' = timeout
            /\ dPc' = "connect"
            /\ UNCHANGED <<dErr, dRet>>
    /\ UNCHANGED <<gPc, dClient, dConn, dIsReturn, dChClosed, gTmp, dTimedOut>>

\* conn, err := net.DialTimeout(...): on an error dialTimeout returns it.
DialConnect(ok) ==
    /\ dPc = "connect"
    /\ IF ok
       THEN /\ dConn' = "open"
            /\ dErr' = "nil"
            /\ dPc' = "spawn"
            /\ UNCHANGED dRet
       ELSE /\ dErr' = "dialErr"
            /\ dRet' = [client |-> NilClient, err |-> "dialErr"]
            /\ dPc' = "returned"
            /\ UNCHANGED dConn
    /\ UNCHANGED <<gPc, dTimeout, dClient, dIsReturn, dChClosed, gTmp, dTimedOut>>

\* The two defers are registered, ch and isReturn are made, and the
\* goroutine is started; the parent goes on to its receive (ConnectTimeout
\* == 0) or to its select.
DialSpawn ==
    /\ dPc = "spawn"
    /\ gPc' = "newClient"
    /\ dPc' = IF dTimeout = 0 THEN "recv" ELSE "select"
    /\ UNCHANGED <<dTimeout, dClient, dErr, dConn, dIsReturn, dChClosed, gTmp,
                   dRet, dTimedOut>>

\* The goroutine: f(conn, opt) returns.
SpawnedNewClient(res) ==
    /\ gPc = "newClient"
    /\ res \in NewClientResults(dConn)
    /\ gTmp' = res
    /\ dConn' = IF res.err = "optionsErr" THEN "closed" ELSE dConn
    /\ gPc' = "assignClient"
    /\ UNCHANGED <<dPc, dTimeout, dClient, dErr, dIsReturn, dChClosed, dRet,
                   dTimedOut>>

\* The goroutine: client, err = f(conn, opt) assigns the parent's named
\* results, left to right, with no synchronisation: first client,
SpawnedAssignClient ==
    /\ gPc = "assignClient"
    /\ dClient' = gTmp.client
    /\ gPc' = "assignErr"
    /\ UNCHANGED <<dPc, dTimeout, dErr, dConn, dIsReturn, dChClosed, gTmp, dRet,
                   dTimedOut>>

\* then err.
SpawnedAssignErr ==
    /\ gPc = "assignErr"
    /\ dErr' = gTmp.err
    /\ gPc' = "select"
    /\ UNCHANGED <<dPc, dTimeout, dClient, dConn, dIsReturn, dChClosed, gTmp,
                   dRet, dTimedOut>>

\* A goroutine that only sends on ch, with no case for isReturn.
SpawnedBlocksOnSend ==
    /\ gPc = "select"
    /\ FALSE
    /\ UNCHANGED dialVars

\* The goroutine's select, case <-isReturn: close(ch) and return.
SpawnedSeesReturn ==
    /\ gPc = "select"
    /\ dIsReturn
    /\ dChClosed' = TRUE
    /\ gPc' = "exitedOnReturn"
    /\ UNCHANGED <<dPc, dTimeout, dClient, dErr, dConn, dIsReturn, gTmp, dRet,
                   dTimedOut>>

\* The hand-off on the unbuffered ch: the goroutine's case ch <- client meets
\* the parent's client = <-ch (alone, or as a case of its select).
DialHandOff ==
    /\ dPc \in {"recv", "select"}
    /\ gPc = "select"
    /\ dClient' = dClient
    /\ gPc' = "handedOff"
    /\ dPc' = "return"
    /\ UNCHANGED <<dTimeout, dErr, dConn, dIsReturn, dChClosed, gTmp, dRet,
                   dTimedOut>>

\* The parent's select, case <-time.After(opt.ConnectTimeout).
DialTimerFires ==
    /\ dPc = "select"
    /\ dTimedOut' = TRUE
    /\ dPc' = "returnTimeoutClient"
    /\ UNCHANGED <<gPc, dTimeout, dClient, dErr, dConn, dIsReturn, dChClosed,
                   gTmp, dRet>>

\* return nil, fmt.Errorf("rpc client: connect timeout: ...") stores its
\* operands in the named results: client = nil,
DialReturnTimeoutClient ==
    /\ dPc = "returnTimeoutClient"
    /\ dClient' = NilClient
    /\ dPc' = "returnTimeoutErr"
    /\ UNCHANGED <<gPc, dTimeout, dErr, dConn, dIsReturn, dChClosed, gTmp, dRet,
                   dTimedOut>>

\* then err = the connect-timeout error.
DialReturnTimeoutErr ==
    /\ dPc = "returnTimeoutErr"
    /\ dErr' = "timeoutErr"
    /\ dPc' = "deferCloseIsReturn"
    /\ UNCHANGED <<gPc, dTimeout, dClient, dConn, dIsReturn, dChClosed, gTmp,
                   dRet, dTimedOut>>

\* return client, err after the hand-off: the results keep their values.
DialReturn ==
    /\ dPc = "return"
    /\ dPc' = "deferCloseIsReturn"
    /\ UNCHANGED <<gPc, dTimeout, dClient, dErr, dConn, dIsReturn, dChClosed,
                   gTmp, dRet, dTimedOut>>

\* defer close(isReturn)
DialDeferCloseIsReturn ==
    /\ dPc = "deferCloseIsReturn"
    /\ dIsReturn' = TRUE
    /\ dPc' = "deferCheckErr"
    /\ UNCHANGED <<gPc, dTimeout, dClient, dErr, dConn, dChClosed, gTmp, dRet,
                   dTimedOut>>

\* defer func() { if err != nil { _ = conn.Close() } }()
DialDeferCheckErr ==
    /\ dPc = "deferCheckErr"
    /\ dConn' = IF dErr # "nil" THEN "closed" ELSE dConn
    /\ dPc' = "exitClient"
    /\ UNCHANGED <<gPc, dTimeout, dClient, dErr, dIsReturn, dChClosed, gTmp,
                   dRet, dTimedOut>>

\* The function exits: the caller gets what the named results hold now,
\* first client,
DialExitClient ==
    /\ dPc = "exitClient"
    /\ dRet' = [dRet EXCEPT !.client = dClient]
    /\ dPc' = "exitErr"
    /\ UNCHANGED <<gPc, dTimeout, dClient, dErr, dConn, dIsReturn, dChClosed,
                   gTmp, dTimedOut>>

\* then err.
DialExitErr ==
    /\ dPc = "exitErr"
    /\ dRet' = [dRet EXCEPT !.err = dErr]
    /\ dPc' = "returned"
    /\ UNCHANGED <<gPc, dTimeout, dClient, dErr, dConn, dIsReturn, dChClosed,
                   gTmp, dTimedOut>>

(* ------------------------- claims: dialTimeout ------------------------- *)

\* C11: when dialTimeout's timer fires before the goroutine has handed off
\* its client, dialTimeout returns a nil client with the connect-timeout
\* error and the connection is closed, however the parent's return and its
\* deferred close-on-error check interleave with the goroutine's assignment
\* of f's result.
C11_TimeoutReturnsErrorAndCloses ==
    (dPc = "returned" /\ dTimedOut)
        => /\ dRet = [client |-> NilClient, err |-> "timeoutErr"]
           /\ dConn = "closed"

\* C12: once f (newClient) has returned in the spawned goroutine, the
\* goroutine eventually exits, by completing the hand-off or by seeing
\* isReturn closed; it never stays blocked on the unbuffered ch, whether the
\* parent left by timeout or by its normal return.
C12_SpawnedTaskExits ==
    (gPc \in {"assignClient", "assignErr", "select"})
        ~> (gPc \in {"handedOff", "exitedOnReturn"})

\* The parent timed out and returned, f returned afterwards, and the
\* goroutine left through the isReturn case.
C12_Witness ==
    /\ dTimedOut
    /\ dPc = "returned"
    /\ gPc = "exitedOnReturn"
    /\ dChClosed

(* =============================== Server ================================ *)

Reqs == 1 .. NumRequests

\* codec.GobType, codec.JsonType
GobType == "application/gob"
JsonType == "application/json"

\* codec.NewCodecFuncMap after init(): only the gob constructor.
NewCodecFuncMap == {GobType}

\* The Options a peer can put at the head of a connection: bytes that do not
\* decode as JSON, or an Option with the right or a wrong MagicNumber, a
\* registered or an unregistered CodecType, and a HandleTimeout.
Options ==
    [decodes : BOOLEAN, MagicNumber : {MagicNumber, 0},
     CodecType : {GobType, JsonType}, HandleTimeout : HandleTimeouts]

\* var DefaultOption
DefaultOption ==
    [decodes |-> TRUE, MagicNumber |-> MagicNumber, CodecType |-> GobType,
     HandleTimeout |-> 0]

\* A ServiceMethod string, as the pieces strings.LastIndex(s, ".") tells
\* apart: "Foo.Sum" is <<"Foo", ".", "Sum">>, "FooSum" is <<"FooSum">>.
ServiceMethods ==
    {<<"Foo", ".", "Sum">>, <<"FooSum">>, <<"Bar", ".", "Sum">>,
     <<"Foo", ".", "Nope">>}

\* type service struct: the methods registerMethods finds on each receiver
\* type the model knows.
MethodsOf(name) == IF name = <<"Foo">> THEN {<<"Sum">>} ELSE {}

\* A missing key of serviceMap (rcvr ids start at 1).
NoService == 0

\* The receivers Register is called with: two values of the same type Foo.
Rcvrs == {[name |-> <<"Foo">>, id |-> 1], [name |-> <<"Foo">>, id |-> 2]}

\* strings.LastIndex(serviceMethod, "."): the last position of ".", 0 (for
\* Go's -1) when there is none.
RECURSIVE LastIndex(_, _)
LastIndex(str, i) ==
    IF i = 0 THEN 0
    ELSE IF str[i] = "." THEN i
    ELSE LastIndex(str, i - 1)

\* Server.findService: "ok" with svc and mtype found, or the error.
findService(serviceMethod, map) ==
    LET dot == LastIndex(serviceMethod, Len(serviceMethod))
        serviceName == SubSeq(serviceMethod, 1, dot - 1)
        methodName == SubSeq(serviceMethod, dot + 1, Len(serviceMethod))
    IN  IF dot = 0 THEN "illFormed"
        ELSE IF serviceName \notin DOMAIN map \/ map[serviceName] = NoService
             THEN "noService"
        ELSE IF methodName \notin MethodsOf(serviceName) THEN "noMethod"
        ELSE "ok"

\* One request as the peer writes it: a header frame and a body frame.  The
\* body of a request either decodes into the method's argument type or not.
Request(r, serviceMethod, bodyOk) ==
    << [kind |-> "header", Seq |-> r, ServiceMethod |-> serviceMethod],
       [kind |-> "body", Seq |-> r, ok |-> bodyOk] >>

\* The requests a peer can send: any ServiceMethod; a body that does not
\* decode matters only where the body is read.
RequestKinds ==
    [ServiceMethod : ServiceMethods, bodyOk : {TRUE}]
        \cup {[ServiceMethod |-> <<"Foo", ".", "Sum">>, bodyOk |-> FALSE]}

\* The frames of requests 1 .. n of the choice ks, in order.
RECURSIVE Stream(_, _)
Stream(ks, n) ==
    IF n = 0 THEN << >>
    ELSE Stream(ks, n - 1) \o Request(n, ks[n].ServiceMethod, ks[n].bodyOk)

\* request struct before readRequest fills it.
NoRequest == [svc |-> FALSE, hError |-> "", read |-> FALSE, bodyRead |-> FALSE]

\* Holders of the sending mutex of one connection.
NoHolder == <<"free", 0>>

\* A connection has been accepted: the peer sent `option` and then `stream`,
\* the server's service map is `map`.
ServerStart(option, stream, map) ==
    /\ sOption = option
    /\ sIn = stream
    /\ sPc = "accepted"
    /\ sCur = 0
    /\ sOut = << >>
    /\ srvSending = NoHolder
    /\ wg = 0
    /\ sCodecClosed = FALSE
    /\ sConnClosed = FALSE
    /\ sPanicked = FALSE
    /\ serviceMap = map
    /\ regLog = << >>
    /\ reqs = [r \in Reqs |-> NoRequest]
    /\ hdlPc = [r \in Reqs |-> "none"]
    /\ wrkPc = [r \in Reqs |-> "none"]
    /\ isReturn = [r \in Reqs |-> FALSE]
    /\ timedOut = [r \in Reqs |-> FALSE]
    /\ callErr = [r \in Reqs |-> "none"]

\* The service maps a connection is served with: empty, or holding Foo.
ServiceMaps ==
    {[n \in {<<"Foo">>} |-> NoService], [n \in {<<"Foo">>} |-> 1]}

\* Server.Accept hands a connection to ServeConn: any Option, any requests,
\* either service map.
ServerInit ==
    \E option \in Options, ks \in [Reqs -> RequestKinds], map \in ServiceMaps :
        ServerStart(option, Stream(ks, NumRequests), map)

\* A server nobody talks to.
ServerIdle ==
    ServerStart(DefaultOption, << >>, [n \in {<<"Foo">>} |-> NoService])

\* Server.sendResponse's cc.Write(h, body): the frame reaches the connection
\* unless the codec has been closed (the error is only logged).
sendResponse(r, body, who) ==
    sOut' = IF sCodecClosed THEN sOut
            ELSE Append(sOut, [Seq |-> r, Error |-> reqs[r].hError,
                               body |-> body, by |-> who])

\* ServeConn's checks without the MagicNumber test.
OptionAcceptedAnyMagic(option) ==
    /\ option.decodes
    /\ option.CodecType \in NewCodecFuncMap

\* ServeConn's three checks: the Option decodes, its MagicNumber is the
\* sentinel, its CodecType has a constructor.
OptionAccepted(option) ==
    /\ option.decodes
    /\ option.MagicNumber = MagicNumber
    /\ option.CodecType \in NewCodecFuncMap

\* Server.ServeConn: decode the Option, check MagicNumber, look the codec
\* constructor up; on any failure return, and the deferred conn.Close()
\* closes the connection.  Otherwise ServeCodec starts.
ServeConn ==
    /\ ~sPanicked
    /\ sPc = "accepted"
    /\ IF OptionAccepted(sOption)
       THEN /\ sPc' = "read"
            /\ UNCHANGED sConnClosed
       ELSE /\ sPc' = "done"
            /\ sConnClosed' = TRUE
    /\ UNCHANGED <<sOption, sIn, sCur, sOut, srvSending, wg, sCodecClosed,
                   sPanicked, serviceMap, regLog, reqs, hdlPc, wrkPc, isReturn,
                   timedOut, callErr>>

\* One iteration of ServeCodec's loop up to the dispatch: readRequest
\* (readRequestHeader, findService, ReadBody), then break, or the error
\* answer, or wg.Add(1); go handleRequest(...).
\*   - no frame left (EOF), or the next frame is not a header (it does not
\*     decode as one): readRequest returns (nil, err), the loop breaks;
\*   - findService fails: readRequest returns (req, nil) with svc nil and
\*     without reading the body, and the request is dispatched;
\*   - ReadBody fails: readRequest returns (req, err), ServeCodec answers;
\*   - otherwise the request is dispatched.
ServeReadRequest ==
    /\ ~sPanicked
    /\ sPc = "read"
    /\ IF sIn = << >> \/ Head(sIn).kind # "header"
       THEN /\ sPc' = "wait"
            /\ sIn' = IF sIn = << >> THEN sIn ELSE Tail(sIn)
            /\ UNCHANGED <<sCur, wg, reqs, hdlPc>>
       ELSE LET r == Head(sIn).Seq
                found == findService(Head(sIn).ServiceMethod, serviceMap)
            IN  IF found # "ok"
                THEN /\ sIn' = Tail(sIn)
                     /\ reqs' = [reqs EXCEPT ![r] = [@ EXCEPT !.read = TRUE]]
                     /\ wg' = wg + 1
                     /\ hdlPc' = [hdlPc EXCEPT ![r] = "start"]
                     /\ UNCHANGED <<sPc, sCur>>
                ELSE IF sIn[2].ok
                THEN /\ sIn' = Tail(Tail(sIn))
                     /\ reqs' = [reqs EXCEPT ![r] =
                                   [@ EXCEPT !.read = TRUE, !.svc = TRUE,
                                             !.bodyRead = TRUE]]
                     /\ wg' = wg + 1
                     /\ hdlPc' = [hdlPc EXCEPT ![r] = "start"]
                     /\ UNCHANGED <<sPc, sCur>>
                ELSE /\ sIn' = Tail(Tail(sIn))
                     /\ reqs' = [reqs EXCEPT ![r] =
                                   [@ EXCEPT !.read = TRUE, !.svc = TRUE,
                                             !.bodyRead = TRUE,
                                             !.hError = "readBodyErr"]]
                     /\ sCur' = r
                     /\ sPc' = "respondLock"
                     /\ UNCHANGED <<wg, hdlPc>>
    /\ UNCHANGED <<sOption, sOut, srvSending, sCodecClosed, sConnClosed,
                   sPanicked, serviceMap, regLog, wrkPc, isReturn, timedOut,
                   callErr>>

\* ServeCodec's sendResponse for a request whose body did not decode:
\* sending.Lock(),
ServeRespondLock ==
    /\ ~sPanicked
    /\ sPc = "respondLock"
    /\ srvSending = NoHolder
    /\ srvSending' = <<"loop", 0>>
    /\ sPc' = "respondWrite"
    /\ UNCHANGED <<sOption, sIn, sCur, sOut, wg, sCodecClosed, sConnClosed,
                   sPanicked, serviceMap, regLog, reqs, hdlPc, wrkPc, isReturn,
                   timedOut, callErr>>

\* then cc.Write(h, invalidRequest) and the deferred Unlock; continue.
ServeRespondWrite ==
    /\ ~sPanicked
    /\ sPc = "respondWrite"
    /\ sendResponse(sCur, "invalidRequest", "loop")
    /\ srvSending' = NoHolder
    /\ sPc' = "read"
    /\ UNCHANGED <<sOption, sIn, sCur, wg, sCodecClosed, sConnClosed, sPanicked,
                   serviceMap, regLog, reqs, hdlPc, wrkPc, isReturn, timedOut,
                   callErr>>

\* ServeCodec that closes the codec without wg.Wait().
ServeWaitSkipped ==
    /\ ~sPanicked
    /\ sPc = "wait"
    /\ sCodecClosed' = TRUE
    /\ sConnClosed' = TRUE
    /\ sPc' = "done"
    /\ UNCHANGED <<sOption, sIn, sCur, sOut, srvSending, wg, sPanicked,
                   serviceMap, regLog, reqs, hdlPc, wrkPc, isReturn, timedOut,
                   callErr>>

\* ServeCodec after the loop: wg.Wait() returns once the counter is zero,
\* then cc.Close(); ServeConn's deferred conn.Close() follows.
ServeWait ==
    /\ ~sPanicked
    /\ sPc = "wait"
    /\ wg = 0
    /\ sCodecClosed' = TRUE
    /\ sConnClosed' = TRUE
    /\ sPc' = "done"
    /\ UNCHANGED <<sOption, sIn, sCur, sOut, srvSending, wg, sPanicked,
                   serviceMap, regLog, reqs, hdlPc, wrkPc, isReturn, timedOut,
                   callErr>>

\* handleRequest up to its wait: called, sent and isReturn are made, the
\* worker goroutine is started, and the handler waits for called (timeout
\* == 0) or selects between the timer and called.
HandleStart(r) ==
    /\ ~sPanicked
    /\ hdlPc[r] = "start"
    /\ wrkPc' = [wrkPc EXCEPT ![r] = "call"]
    /\ hdlPc' = [hdlPc EXCEPT ![r] =
                   IF sOption.HandleTimeout = 0 THEN "waitCalled" ELSE "select"]
    /\ UNCHANGED <<sOption, sIn, sPc, sCur, sOut, srvSending, wg, sCodecClosed,
                   sConnClosed, sPanicked, serviceMap, regLog, reqs, isReturn,
                   timedOut, callErr>>

\* The worker: err := req.svc.call(req.mtype, req.argv, req.replyv).  With a
\* nil mtype (findService failed) call dereferences nil at m.numCalls and
\* the process panics; otherwise the method runs and returns err.
WorkerCall(r, err) ==
    /\ ~sPanicked
    /\ wrkPc[r] = "call"
    /\ IF ~reqs[r].svc
       THEN /\ sPanicked' = TRUE
            /\ wrkPc' = [wrkPc EXCEPT ![r] = "panicked"]
            /\ UNCHANGED callErr
       ELSE /\ callErr' = [callErr EXCEPT ![r] = err]
            /\ wrkPc' = [wrkPc EXCEPT ![r] = "select"]
            /\ UNCHANGED sPanicked
    /\ UNCHANGED <<sOption, sIn, sPc, sCur, sOut, srvSending, wg, sCodecClosed,
                   sConnClosed, serviceMap, regLog, reqs, hdlPc, isReturn,
                   timedOut>>

\* A worker whose select has no case for isReturn.
WorkerBlocksOnCalled(r) ==
    /\ wrkPc[r] = "select"
    /\ FALSE
    /\ UNCHANGED serverVars

\* The worker's select, case <-isReturn: close(called), close(sent), return.
WorkerSeesReturn(r) ==
    /\ ~sPanicked
    /\ wrkPc[r] = "select"
    /\ isReturn[r]
    /\ wrkPc' = [wrkPc EXCEPT ![r] = "exitedOnReturn"]
    /\ UNCHANGED <<sOption, sIn, sPc, sCur, sOut, srvSending, wg, sCodecClosed,
                   sConnClosed, sPanicked, serviceMap, regLog, reqs, hdlPc,
                   isReturn, timedOut, callErr>>

\* The worker's case called <- struct{}{} meets the handler's <-called (alone
\* or as a case of its select); the worker then sets req.h.Error on an error
\* of the method.
HandleCalled(r) ==
    /\ ~sPanicked
    /\ wrkPc[r] = "select"
    /\ hdlPc[r] \in {"waitCalled", "select"}
    /\ hdlPc' = [hdlPc EXCEPT ![r] = "waitSent"]
    /\ wrkPc' = [wrkPc EXCEPT ![r] = "lock"]
    /\ reqs' = [reqs EXCEPT ![r] =
                  [@ EXCEPT !.hError =
                      IF callErr[r] # "nil" THEN callErr[r] ELSE @]]
    /\ UNCHANGED <<sOption, sIn, sPc, sCur, sOut, srvSending, wg, sCodecClosed,
                   sConnClosed, sPanicked, serviceMap, regLog, isReturn,
                   timedOut, callErr>>

\* A worker that writes its response without waiting for sending.
WorkerLockBarges(r) ==
    /\ ~sPanicked
    /\ wrkPc[r] = "lock"
    /\ srvSending' = <<"worker", r>>
    /\ wrkPc' = [wrkPc EXCEPT ![r] = "write"]
    /\ UNCHANGED <<sOption, sIn, sPc, sCur, sOut, wg, sCodecClosed, sConnClosed,
                   sPanicked, serviceMap, regLog, reqs, hdlPc, isReturn,
                   timedOut, callErr>>

\* The worker's sendResponse: sending.Lock(),
WorkerLock(r) ==
    /\ ~sPanicked
    /\ wrkPc[r] = "lock"
    /\ srvSending = NoHolder
    /\ srvSending' = <<"worker", r>>
    /\ wrkPc' = [wrkPc EXCEPT ![r] = "write"]
    /\ UNCHANGED <<sOption, sIn, sPc, sCur, sOut, wg, sCodecClosed, sConnClosed,
                   sPanicked, serviceMap, regLog, reqs, hdlPc, isReturn,
                   timedOut, callErr>>

\* then cc.Write(req.h, reply or invalidRequest) and the deferred Unlock.
WorkerWrite(r) ==
    /\ ~sPanicked
    /\ wrkPc[r] = "write"
    /\ sendResponse(r, IF callErr[r] = "nil" THEN "replyv" ELSE "invalidRequest",
                    "worker")
    /\ srvSending' = NoHolder
    /\ wrkPc' = [wrkPc EXCEPT ![r] = "sendSent"]
    /\ UNCHANGED <<sOption, sIn, sPc, sCur, wg, sCodecClosed, sConnClosed,
                   sPanicked, serviceMap, regLog, reqs, hdlPc, isReturn,
                   timedOut, callErr>>

\* The worker's sent <- struct{}{} meets the handler's <-sent.
HandleSent(r) ==
    /\ ~sPanicked
    /\ wrkPc[r] = "sendSent"
    /\ hdlPc[r] = "waitSent"
    /\ wrkPc' = [wrkPc EXCEPT ![r] = "exited"]
    /\ hdlPc' = [hdlPc EXCEPT ![r] = "return"]
    /\ UNCHANGED <<sOption, sIn, sPc, sCur, sOut, srvSending, wg, sCodecClosed,
                   sConnClosed, sPanicked, serviceMap, regLog, reqs, isReturn,
                   timedOut, callErr>>

\* The handler's select, case <-time.After(timeout): req.h.Error is set to
\* the handle-timeout message.
HandleTimerFires(r) ==
    /\ ~sPanicked
    /\ hdlPc[r] = "select"
    /\ timedOut' = [timedOut EXCEPT ![r] = TRUE]
    /\ reqs' = [reqs EXCEPT ![r] = [@ EXCEPT !.hError = "handleTimeout"]]
    /\ hdlPc' = [hdlPc EXCEPT ![r] = "timeoutLock"]
    /\ UNCHANGED <<sOption, sIn, sPc, sCur, sOut, srvSending, wg, sCodecClosed,
                   sConnClosed, sPanicked, serviceMap, regLog, wrkPc, isReturn,
                   callErr>>

\* The handler's sendResponse of the timeout: sending.Lock(),
HandleTimeoutLock(r) ==
    /\ ~sPanicked
    /\ hdlPc[r] = "timeoutLock"
    /\ srvSending = NoHolder
    /\ srvSending' = <<"handler", r>>
    /\ hdlPc' = [hdlPc EXCEPT ![r] = "timeoutWrite"]
    /\ UNCHANGED <<sOption, sIn, sPc, sCur, sOut, wg, sCodecClosed, sConnClosed,
                   sPanicked, serviceMap, regLog, reqs, wrkPc, isReturn,
                   timedOut, callErr>>

\* then cc.Write(req.h, invalidRequest) and the deferred Unlock.
HandleTimeoutWrite(r) ==
    /\ ~sPanicked
    /\ hdlPc[r] = "timeoutWrite"
    /\ sendResponse(r, "invalidRequest", "handler")
    /\ srvSending' = NoHolder
    /\ hdlPc' = [hdlPc EXCEPT ![r] = "return"]
    /\ UNCHANGED <<sOption, sIn, sPc, sCur, wg, sCodecClosed, sConnClosed,
                   sPanicked, serviceMap, regLog, reqs, wrkPc, isReturn,
                   timedOut, callErr>>

\* handleRequest returns: the deferred close(isReturn), then wg.Done().
HandleReturn(r) ==
    /\ ~sPanicked
    /\ hdlPc[r] = "return"
    /\ isReturn' = [isReturn EXCEPT ![r] = TRUE]
    /\ wg' = wg - 1
    /\ hdlPc' = [hdlPc EXCEPT ![r] = "done"]
    /\ UNCHANGED <<sOption, sIn, sPc, sCur, sOut, srvSending, sCodecClosed,
                   sConnClosed, sPanicked, serviceMap, regLog, reqs, wrkPc,
                   timedOut, callErr>>

\* newService(rcvr): the named result s is a nil *service and the first
\* statement, s.rcvr = reflect.ValueOf(rcvr), assigns through it: the call
\* panics before any service is built.
newService(rcvr) == [panics |-> TRUE, name |-> rcvr.name]

\* Server.Register: s := newService(rcvr), then serviceMap.LoadOrStore(s.name,
\* s), one atomic step of sync.Map: a name already present yields the
\* "service already defined" error and the map keeps what it held.
Register(rcvr) ==
    /\ ~sPanicked
    /\ LET s == newService(rcvr)
       IN  IF s.panics
           THEN /\ sPanicked' = TRUE
                /\ regLog' = Append(regLog, [rcvr |-> rcvr, result |-> "panic"])
                /\ UNCHANGED serviceMap
           ELSE /\ UNCHANGED sPanicked
                /\ IF serviceMap[s.name] # NoService
                   THEN /\ regLog' = Append(regLog, [rcvr |-> rcvr,
                                                     result |-> "alreadyDefined"])
                        /\ UNCHANGED serviceMap
                   ELSE /\ regLog' = Append(regLog, [rcvr |-> rcvr,
                                                     result |-> "nil"])
                        /\ serviceMap' = [serviceMap EXCEPT ![s.name] = rcvr.id]
    /\ UNCHANGED <<sOption, sIn, sPc, sCur, sOut, srvSending, wg, sCodecClosed,
                   sConnClosed, reqs, hdlPc, wrkPc, isReturn, timedOut, callErr>>

(* --------------------------- claims: Server ---------------------------- *)

\* The positions in sOut of the responses that carry the Seq of request r.
Responses(r) == {i \in 1 .. Len(sOut) : sOut[i].Seq = r}

C14_UnresolvedIsAnswered ==
    \A r \in Reqs :
        (reqs[r].read /\ ~reqs[r].svc) =>
            /\ reqs[r].bodyRead
            /\ hdlPc[r] = "none"
            /\ wrkPc[r] = "none"
            /\ ~sPanicked
            /\ (sPc # "read" \/ sIn = << >> \/ Head(sIn).Seq # r) =>
                   /\ Cardinality(Responses(r)) = 1
                   /\ \A i \in Responses(r) : sOut[i].Error # ""

\* C15: on a connection whose Option does not decode, carries another
\* MagicNumber than the sentinel, or names a CodecType without a registered
\* constructor, the server closes the connection and reads no request frame,
\* dispatches no handler and writes no response.
C15_InvalidOptionOnlyCloses ==
    ~(/\ sOption.decodes
      /\ sOption.MagicNumber = MagicNumber
      /\ sOption.CodecType \in NewCodecFuncMap)
        => /\ Len(sIn) = 2 * NumRequests
           /\ \A r \in Reqs :
                  ~reqs[r].read /\ hdlPc[r] = "none" /\ wrkPc[r] = "none"
           /\ sOut = << >>
           /\ wg = 0
           /\ sPc \in {"accepted", "done"}
           /\ (sPc = "done" => sConnClosed)

\* ServeConn has returned on an Option with a wrong MagicNumber.
C15_Witness ==
    /\ sOption.decodes
    /\ sOption.MagicNumber # MagicNumber
    /\ sOption.CodecType \in NewCodecFuncMap
    /\ sPc = "done"
    /\ sConnClosed
    /\ Len(sIn) = 2 * NumRequests

\* C16: of the Register calls made on one Server, at most one per service
\* name succeeds; every later one for that name returns the "already
\* defined" error, and the service map keeps the first registered service.
C16_DuplicateRegisterRejected ==
    \A i \in 1 .. Len(regLog) :
        /\ regLog[i].result \in {"nil", "alreadyDefined"}
        /\ regLog[i].result = "nil" =>
               /\ serviceMap[regLog[i].rcvr.name] = regLog[i].rcvr.id
               /\ \A j \in i + 1 .. Len(regLog) :
                      regLog[j].rcvr.name = regLog[i].rcvr.name
                          => regLog[j].result = "alreadyDefined"

\* A goroutine of the connection is inside sendResponse for a request, or on
\* its way to it.
Responding(r) ==
    \/ wrkPc[r] \in {"lock", "write"}
    \/ hdlPc[r] \in {"timeoutLock", "timeoutWrite"}

\* C34: once a header read has failed the serve loop reads no more frames and
\* dispatches nothing; the codec is closed only when every handleRequest
\* started on the connection has returned (wg is back at zero); and no
\* response is written, or about to be, once the loop has closed the codec.
C34_CloseAfterHandlers ==
    /\ [](sCodecClosed =>
             /\ sPc = "done"
             /\ wg = 0
             /\ srvSending = NoHolder
             /\ \A r \in Reqs :
                   /\ hdlPc[r] \in {"none", "done"}
                   /\ ~Responding(r))
    /\ [][/\ sPc \in {"wait", "done"} =>
                /\ sIn' = sIn
                /\ sPc' \in {"wait", "done"}
                /\ \A r \in Reqs : hdlPc[r] = "none" => hdlPc'[r] = "none"
          /\ sOut' # sOut => ~sCodecClosed /\ ~sCodecClosed'
          /\ (~sCodecClosed /\ sCodecClosed') =>
                /\ sPc = "wait"
                /\ wg = 0
                /\ \A r \in Reqs : hdlPc[r] \in {"none", "done"}
      ]_vars

\* C34 witness: the loop has closed the codec after two handlers returned,
\* one with the response of its worker written, the other after its timeout
\* response while its method is still running.
C34_Witness ==
    \E r, q \in Reqs :
        /\ sCodecClosed
        /\ hdlPc[r] = "done" /\ ~timedOut[r] /\ wrkPc[r] = "exited"
        /\ hdlPc[q] = "done" /\ timedOut[q] /\ wrkPc[q] = "call"
        /\ Len(sOut) = 2

\* The goroutines of the connection that are inside cc.Write: the serve loop
\* answering a request whose body did not decode, the worker of a request
\* with its result, the handler of a request with its timeout response.
Writers ==
    (IF sPc = "respondWrite" THEN {<<"loop", 0>>} ELSE {})
        \cup {<<"worker", r>> : r \in {q \in Reqs : wrkPc[q] = "write"}}
        \cup {<<"handler", r>> : r \in {q \in Reqs : hdlPc[q] = "timeoutWrite"}}

\* C35: on one connection at most one response write is in progress at any
\* time, and the goroutine that writes holds the sending mutex of the
\* connection; a response is added to the output only by that goroutine, one
\* whole (Header, Body) frame at a time.
C35_OneWriterAtATime ==
    /\ [](/\ Cardinality(Writers) <= 1
          /\ Writers = IF srvSending = NoHolder THEN {} ELSE {srvSending})
    /\ [][sOut' # sOut =>
             /\ srvSending # NoHolder
             /\ srvSending' = NoHolder
             /\ Len(sOut') = Len(sOut) + 1
             /\ sOut'[Len(sOut')].by = srvSending[1]
      ]_vars

\* C35 witness: the handler of one request is writing its timeout response
\* while the worker of another request waits for the sending mutex.
C35_Witness ==
    \E r, q \in Reqs :
        /\ hdlPc[r] = "timeoutWrite" /\ srvSending = <<"handler", r>>
        /\ wrkPc[q] = "lock"

\* At most one response carries the Seq of a dispatched request, and it is
\* the worker's, with the method's error (or none) in the header and the
\* matching body, or the handler's, with the handle-timeout error.
AtMostOneResponse(r) ==
    /\ Cardinality(Responses(r)) <= 1
    /\ \A i \in Responses(r) :
          \/ /\ sOut[i].by = "worker"
             /\ ~timedOut[r]
             /\ sOut[i].Error = IF callErr[r] = "nil" THEN "" ELSE callErr[r]
             /\ sOut[i].body = IF callErr[r] = "nil" THEN "replyv"
                               ELSE "invalidRequest"
          \/ /\ sOut[i].by = "handler"
             /\ timedOut[r]
             /\ sOut[i].Error = "handleTimeout"
             /\ sOut[i].body = "invalidRequest"

\* C36 (as claimed): for every request dispatched to handleRequest exactly
\* one response with its Seq is written, the method's result or the
\* handle-timeout error, never both and never none.
C36_ExactlyOneResponse ==
    /\ [](\A r \in Reqs : hdlPc[r] # "none" => AtMostOneResponse(r))
    /\ \A r \in Reqs :
          (hdlPc[r] # "none") ~> (Cardinality(Responses(r)) = 1)

\* What holds of C36: never two responses, and exactly one in the end for
\* every dispatched request as long as no goroutine of the process panics.
OneResponseUnlessPanic ==
    /\ [](\A r \in Reqs : hdlPc[r] # "none" => AtMostOneResponse(r))
    /\ \A r \in Reqs :
          (hdlPc[r] # "none")
              ~> (sPanicked \/ Cardinality(Responses(r)) = 1)

\* A request whose ServiceMethod did not resolve was dispatched, its worker
\* panicked in service.call, and no response carries its Seq.
DispatchedUnanswered ==
    \E r \in Reqs :
        /\ hdlPc[r] # "none"
        /\ ~reqs[r].svc
        /\ wrkPc[r] = "panicked"
        /\ sPanicked
        /\ Responses(r) = {}

(* ======================= CenterRegistry, Heartbeat ===================== *)

Addrs == 1 .. NumAddrs

\* A missing key of CenterRegistry.servers (a start time is never negative).
NoItem == -1

\* req.Header.Get("X-Myrpc-Server") when the header is absent: "".
NoAddr == 0

\* The HTTP methods a request can carry.
Methods == {"GET", "POST", "PUT"}

\* http.StatusOK (what a handler that never calls WriteHeader answers),
\* http.StatusInternalServerError, http.StatusMethodNotAllowed.
StatusOK == 200
StatusInternalServerError == 500
StatusMethodNotAllowed == 405

\* The address the heartbeat task reports.
HbAddr == 1

\* The liveness test without the timeout == 0 case.
AliveNoZeroCase(start, timeout, t) == start + timeout > t

\* getAliveServers' test:
\* r.timeout == 0 || server.start.Add(r.timeout).After(time.Now())
Alive(start, timeout, t) == timeout = 0 \/ start + timeout > t

\* The orders in which a range over a Go map can visit the keys in S.
RangeOrders(S) ==
    {f \in [1 .. Cardinality(S) -> S] :
        \A i, k \in 1 .. Cardinality(S) : i # k => f[i] # f[k]}

\* A getAliveServers that forgets to sort.
sortStringsSkipped(list) == list

\* sort.Strings(alive)
sortStrings(list) == SortSeq(list, LAMBDA a, b : a < b)

\* A putServer that leaves the start of a known server alone.
putServerKeepsStart(map, addr, t) ==
    IF map[addr] = NoItem THEN [map EXCEPT ![addr] = t] ELSE map

\* CenterRegistry.putServer: a new ServerItem, or a new start for the old one.
putServer(map, addr, t) == [map EXCEPT ![addr] = t]

\* CenterRegistry.getAliveServers, the map it leaves behind: the entries that
\* failed the test are deleted.
aliveServers(map, timeout, t) ==
    [a \in Addrs |->
        IF map[a] # NoItem /\ Alive(map[a], timeout, t) THEN map[a] ELSE NoItem]

\* New(timeout) at time 0, no request served, Heartbeat not called.
RegistryStart(timeout) ==
    /\ now = 0
    /\ regTimeout = timeout
    /\ servers = [a \in Addrs |-> NoItem]
    /\ getResult = << >>
    /\ status = 0
    /\ lastReq = [method |-> "", addr |-> NoAddr]
    /\ reqFlip = FALSE
    /\ hbPc = "idle"
    /\ hbErr = "nil"
    /\ hbPeriod = 0
    /\ hbNext = 0
    /\ hbLog = << >>

\* registry.New(timeout), for each timeout tried.
RegistryInit == \E timeout \in Timeouts : RegistryStart(timeout)

\* var DefaultRegister = New(defaultTimeout), with nobody talking to it.
RegistryIdle == RegistryStart(defaultTimeout)

\* CenterRegistry.ServeHTTP for one request; putServer and getAliveServers
\* run under r.mu, so a request is served in one step.
ServeHTTP(method, addr) ==
    /\ lastReq' = [method |-> method, addr |-> addr]
    /\ reqFlip' = ~reqFlip
    /\ CASE method = "GET" ->
              \E order \in RangeOrders({a \in Addrs :
                               /\ servers[a] # NoItem
                               /\ Alive(servers[a], regTimeout, now)}) :
                  /\ getResult' = sortStrings(order)
                  /\ servers' = aliveServers(servers, regTimeout, now)
                  /\ status' = StatusOK
         [] method = "POST" ->
              IF addr = NoAddr
              THEN /\ status' = StatusInternalServerError
                   /\ getResult' = << >>
                   /\ UNCHANGED servers
              ELSE /\ servers' = putServer(servers, addr, now)
                   /\ status' = StatusOK
                   /\ getResult' = << >>
         [] OTHER ->
              /\ status' = StatusMethodNotAllowed
              /\ getResult' = << >>
              /\ UNCHANGED servers

\* Some HTTP client sends a request to the registry (only a POST is given
\* the X-Myrpc-Server header, which the other methods do not read).
HTTPRequest(method, addr) ==
    /\ ServeHTTP(method, addr)
    /\ UNCHANGED <<now, regTimeout, hbPc, hbErr, hbPeriod, hbNext, hbLog>>

\* Time passes.
Tick ==
    /\ now < MaxTime
    /\ now' = now + 1
    /\ UNCHANGED <<regTimeout, servers, getResult, status, lastReq, reqFlip,
                   hbPc, hbErr, hbPeriod, hbNext, hbLog>>

\* sendHeartbeat: a POST with X-Myrpc-Server set.  httpClient.Do answers nil
\* once the registry has served the request, or an error; with an error the
\* request may or may not have reached the registry.
sendHeartbeat(err, served) ==
    /\ err = "nil" => served
    /\ hbErr' = err
    /\ hbLog' = Append(hbLog, err)
    /\ IF served
       THEN ServeHTTP("POST", HbAddr)
       ELSE UNCHANGED <<servers, getResult, status, lastReq, reqFlip>>

\* Heartbeat up to the go statement: the default period for duration == 0,
\* then the first sendHeartbeat.
Heartbeat(duration, err, served) ==
    /\ hbPc = "idle"
    /\ hbPeriod' = IF duration = 0 THEN defaultTimeout - 1 ELSE duration
    /\ hbNext' = now + hbPeriod'
    /\ sendHeartbeat(err, served)
    /\ hbPc' = "loop"
    /\ UNCHANGED <<now, regTimeout>>

\* A loop that goes on whatever err holds.
HeartbeatLoopIgnoresErr ==
    /\ hbPc = "loop"
    /\ hbPc' = "tick"
    /\ UNCHANGED <<now, regTimeout, servers, getResult, status, lastReq,
                   reqFlip, hbErr, hbPeriod, hbNext, hbLog>>

\* The goroutine's loop condition: for err == nil.
HeartbeatLoop ==
    /\ hbPc = "loop"
    /\ hbPc' = IF hbErr = "nil" THEN "tick" ELSE "stopped"
    /\ UNCHANGED <<now, regTimeout, servers, getResult, status, lastReq,
                   reqFlip, hbErr, hbPeriod, hbNext, hbLog>>

\* The loop body: <-t.C once the tick is due, then sendHeartbeat.
HeartbeatTick(err, served) ==
    /\ hbPc = "tick"
    /\ now >= hbNext
    /\ hbNext' = hbNext + hbPeriod
    /\ sendHeartbeat(err, served)
    /\ hbPc' = "loop"
    /\ UNCHANGED <<now, regTimeout, hbPeriod>>

(* --------------------- claims: CenterRegistry, Heartbeat --------------- *)

\* This step is ServeHTTP serving a request with the given method.
Served(method) == reqFlip' # reqFlip /\ lastReq'.method = method

\* The answer of the GET served by this step lists exactly the addresses of
\* E, in ascending order, and the registry keeps exactly the entries of E.
GetAnswers(E) ==
    /\ Len(getResult') = Cardinality(E)
    /\ {getResult'[i] : i \in 1 .. Len(getResult')} = E
    /\ \A i, k \in 1 .. Len(getResult') : i < k => getResult'[i] < getResult'[k]
    /\ servers' = [a \in Addrs |-> IF a \in E THEN servers[a] ELSE NoItem]

\* An address absent from the registry comes back only by a POST of it.
BackOnlyByPost ==
    \A a \in Addrs :
        (servers[a] = NoItem /\ servers'[a] # NoItem)
            => (Served("POST") /\ lastReq'.addr = a)

\* C17: after any sequence of POSTs and GETs, a GET returns exactly the
\* registered addresses whose last heartbeat + TTL is strictly later than
\* now, in ascending order, and removes every other address, which comes
\* back only by a new POST.
C17_GetReturnsUnexpiredSorted ==
    [][ /\ Served("GET") =>
            GetAnswers({a \in Addrs : /\ servers[a] # NoItem
                                      /\ servers[a] + regTimeout > now})
        /\ BackOnlyByPost
      ]_vars

\* C17 as the code has it: the rule above for a TTL > 0; with TTL = 0 a GET
\* returns every registered address, in ascending order, and removes none.
C17_GetReturnsAliveSorted ==
    [][ /\ Served("GET") =>
            GetAnswers({a \in Addrs :
                          /\ servers[a] # NoItem
                          /\ (regTimeout = 0 \/ servers[a] + regTimeout > now)})
        /\ BackOnlyByPost
      ]_vars

\* With a TTL > 0: the heartbeat's address was registered, a GET has just
\* evicted it and has answered with the other, still fresh, address.
C17_Witness ==
    /\ regTimeout > 0
    /\ lastReq.method = "GET"
    /\ Len(hbLog) = 1
    /\ hbLog[1] = "nil"
    /\ servers[HbAddr] = NoItem
    /\ Len(getResult) = 1
    /\ getResult[1] # HbAddr
    /\ servers[getResult[1]] # NoItem

\* C18: a POST carrying an address upserts it (a new address gets its entry,
\* a known address keeps its one entry, whose last heartbeat becomes now); a
\* POST without the address header answers 500 and any method other than GET
\* and POST answers 405, both leaving the registry map unchanged.
C18_PostUpserts ==
    [][ /\ (Served("POST") /\ lastReq'.addr # NoAddr) =>
            /\ servers'[lastReq'.addr] = now
            /\ \A a \in Addrs \ {lastReq'.addr} : servers'[a] = servers[a]
        /\ (Served("POST") /\ lastReq'.addr = NoAddr) =>
            /\ status' = 500
            /\ servers' = servers
        /\ (reqFlip' # reqFlip /\ lastReq'.method \notin {"GET", "POST"}) =>
            /\ status' = 405
            /\ servers' = servers
      ]_vars

\* The heartbeat's second POST has just refreshed its entry (with TTL 0 the
\* entry of the first POST cannot have been evicted in between).
C18_Witness ==
    /\ regTimeout = 0
    /\ Len(hbLog) = 2
    /\ hbLog[2] = "nil"
    /\ lastReq = [method |-> "POST", addr |-> HbAddr]
    /\ now > 0
    /\ servers[HbAddr] = now

\* C19: with TTL = 0 no entry is ever evicted: an address in the registry
\* stays in it, and every GET returns every address that was POSTed before,
\* however much time has passed.
C19_ZeroTimeoutNeverEvicts ==
    [][ regTimeout = 0 =>
            /\ \A a \in Addrs : servers[a] # NoItem => servers'[a] # NoItem
            /\ Served("GET") =>
                   \A a \in Addrs :
                       servers[a] # NoItem =>
                           \E i \in 1 .. Len(getResult') : getResult'[i] = a
      ]_vars

\* With TTL 0, an address POSTed at time 0 is returned by a GET at MaxTime.
C19_Witness ==
    /\ regTimeout = 0
    /\ now = MaxTime
    /\ lastReq.method = "GET"
    /\ servers[HbAddr] = 0
    /\ \E i \in 1 .. Len(getResult) : getResult[i] = HbAddr

\* C20: Heartbeat sends one POST at once and then one POST per tick of its
\* period, and stops at the first POST error: no POST follows a failed one
\* (the first included), and the POSTs never run ahead of the ticks.
C20_HeartbeatStopsOnError ==
    /\ (hbPc = "idle") <=> (hbLog = << >>)
    /\ \A i \in 1 .. Len(hbLog) - 1 : hbLog[i] = "nil"
    /\ hbPc = "stopped" => hbLog[Len(hbLog)] # "nil"
    /\ hbPc = "tick" => hbLog[Len(hbLog)] = "nil"
    /\ hbPc # "idle" => hbNext <= now + hbPeriod

\* The second POST failed, the task stopped, and no POST followed although
\* the clock ran on to MaxTime.
C20_Witness ==
    /\ hbLog = <<"nil", "doErr">>
    /\ hbPc = "stopped"
    /\ hbPeriod = 1
    /\ now = MaxTime

(* ------------------------------ Discovery ------------------------------ *)

\* The characters of the strings the model builds: a letter, a blank and
\* the separator of the X-Myrpc-Servers header.  A string is a sequence of
\* characters.
Chars == {"a", " ", ","}

\* Every string of at most n characters.
RECURSIVE Strings(_)
Strings(n) ==
    IF n = 0 THEN {<< >>}
    ELSE Strings(n - 1) \cup
         {Append(s, c) : s \in {t \in Strings(n - 1) : Len(t) = n - 1}, c \in Chars}

\* What resp.Header.Get("X-Myrpc-Servers") can hold.
Answers == Strings(MaxAnswer)

\* The server names a caller of Update or of NewMultiServersDiscovery uses.
ServerNames == {<<"a">>, <<"a", "a">>}

\* Every list of at most n server names.
RECURSIVE Lists(_)
Lists(n) ==
    IF n = 0 THEN {<< >>}
    ELSE Lists(n - 1) \cup
         {Append(l, s) : l \in {t \in Lists(n - 1) : Len(t) = n - 1}, s \in ServerNames}

\* The lists handed to Update and to NewMultiServersDiscovery.
ServerLists == Lists(MaxServers)

\* type SelectMode int, its two constants, and the values tried (2: a mode
\* that Get does not know).
RandomSelect == 0
RoundRobinSelect == 1
SelectModes == {RandomSelect, RoundRobinSelect, 2}

\* The values of `timeout` handed to NewCenterRegistryDiscovery (0: default).
UpdateTimeouts == {0, 2}

\* const defaultUpdateTimeout = time.Second * 10
defaultUpdateTimeout == 10

\* The zero time.Time of a lastUpdate never assigned, and the clock when the
\* discovery is built: later than the zero time plus any timeout.
ZeroTime == 0
StartTime == ZeroTime + defaultUpdateTimeout

\* strings.Split(s, ","): the pieces between the separators.
RECURSIVE Split(_)
Split(s) ==
    IF \A i \in 1 .. Len(s) : s[i] # ","
    THEN <<s>>
    ELSE LET i == CHOOSE k \in 1 .. Len(s) :
                      /\ s[k] = ","
                      /\ \A m \in 1 .. k - 1 : s[m] # ","
         IN  <<SubSeq(s, 1, i - 1)>> \o Split(SubSeq(s, i + 1, Len(s)))

\* A TrimSpace that trims nothing.
TrimSpaceSkipped(s) == s

\* strings.TrimSpace(s): s without its leading and trailing blanks.
RECURSIVE TrimSpace(_)
TrimSpace(s) ==
    IF s = << >> THEN s
    ELSE IF Head(s) = " " THEN TrimSpace(Tail(s))
    ELSE IF s[Len(s)] = " " THEN TrimSpace(SubSeq(s, 1, Len(s) - 1))
    ELSE s

\* The loop of Refresh: append the trimmed piece when it is not empty.
RECURSIVE appendServers(_, _)
appendServers(pieces, acc) ==
    IF pieces = << >> THEN acc
    ELSE IF TrimSpace(Head(pieces)) # << >>
         THEN appendServers(Tail(pieces), Append(acc, TrimSpace(Head(pieces))))
         ELSE appendServers(Tail(pieces), acc)

\* A test that also holds at the instant lastUpdate + timeout.
FreshNonStrict(last, timeout, t) == last + timeout >= t

\* Refresh's test: d.lastUpdate.Add(d.timeout).After(time.Now())
Fresh(last, timeout, t) == last + timeout > t

\* The results of a method before any has returned.
NoRet == [op |-> "none", val |-> << >>, err |-> "nil"]

\* The discovery as its constructor leaves it.
DiscoveryStart(kind, list, i, timeout) ==
    /\ dsKind = kind
    /\ dsServers = list
    /\ index = i
    /\ dsTimeout = timeout
    /\ lastUpdate = ZeroTime
    /\ dsNow = StartTime
    /\ dsPc = "idle"
    /\ dsMode = RandomSelect
    /\ dsRet = NoRet
    /\ dsLast = [n |-> 0, op |-> "none", arg |-> << >>, fetched |-> "no",
                 answer |-> << >>]
    /\ dsRR = << >>
    /\ dsStart = i
    /\ dsBy = "new"

\* NewMultiServersDiscovery(servers): index is d.r.Intn(math.MaxInt32 - 1).
NewMultiServersDiscovery ==
    \E list \in ServerLists, i \in 0 .. MaxIndex :
        DiscoveryStart("multi", list, i, 0)

\* NewCenterRegistryDiscovery(registerAddr, timeout): an empty list, and the
\* default timeout in place of 0.
NewCenterRegistryDiscovery ==
    \E timeout \in UpdateTimeouts, i \in 0 .. MaxIndex :
        DiscoveryStart("center", << >>, i,
                       IF timeout = 0 THEN defaultUpdateTimeout ELSE timeout)

\* Either constructor.
DiscoveryInit == NewMultiServersDiscovery \/ NewCenterRegistryDiscovery

\* A discovery nobody uses.
DiscoveryIdle == DiscoveryStart("multi", << >>, 0, 0)

\* The history record of the method run by this step.
Ran(op, arg, fetched, answer) ==
    dsLast' = [n |-> 1 - dsLast.n, op |-> op, arg |-> arg,
               fetched |-> fetched, answer |-> answer]

\* Update(servers), under d.mu: MultiServersDiscovery.Update assigns the
\* list; CenterRegistryDiscovery.Update also stamps lastUpdate.
Update(list) ==
    /\ dsServers' = list
    /\ lastUpdate' = IF dsKind = "center" THEN dsNow ELSE lastUpdate
    /\ dsRet' = [op |-> "Update", val |-> << >>, err |-> "nil"]
    /\ Ran("Update", list, "no", << >>)
    /\ dsRR' = << >>
    /\ dsStart' = index
    /\ dsBy' = "Update"
    /\ UNCHANGED <<dsKind, index, dsTimeout, dsNow, dsPc, dsMode>>

\* A Refresh that stamps lastUpdate although the GET failed.
refreshStampsFailure(answer, ok, err) ==
    IF dsKind = "multi" \/ Fresh(lastUpdate, dsTimeout, dsNow)
    THEN /\ err = "nil"
         /\ Ran("Refresh", << >>, "no", << >>)
         /\ UNCHANGED <<dsServers, lastUpdate, dsRR, dsStart, dsBy>>
    ELSE IF ~ok
    THEN /\ err = "getErr"
         /\ Ran("Refresh", << >>, "failed", << >>)
         /\ lastUpdate' = dsNow
         /\ UNCHANGED <<dsServers, dsRR, dsStart, dsBy>>
    ELSE /\ err = "nil"
         /\ Ran("Refresh", << >>, "answered", answer)
         /\ dsServers' = appendServers(Split(answer), << >>)
         /\ lastUpdate' = dsNow
         /\ dsRR' = << >>
         /\ dsStart' = index
         /\ dsBy' = "Refresh"

\* The body of Refresh, under d.mu.  MultiServersDiscovery.Refresh returns
\* nil.  CenterRegistryDiscovery.Refresh returns nil while the list is
\* fresh; otherwise http.Get(d.registryAddr) answers with the header
\* `answer`, or fails (ok = FALSE).  err is what Refresh returns.
refresh(answer, ok, err) ==
    IF dsKind = "multi" \/ Fresh(lastUpdate, dsTimeout, dsNow)
    THEN /\ err = "nil"
         /\ Ran("Refresh", << >>, "no", << >>)
         /\ UNCHANGED <<dsServers, lastUpdate, dsRR, dsStart, dsBy>>
    ELSE IF ~ok
    THEN /\ err = "getErr"
         /\ Ran("Refresh", << >>, "failed", << >>)
         /\ UNCHANGED <<dsServers, lastUpdate, dsRR, dsStart, dsBy>>
    ELSE /\ err = "nil"
         /\ Ran("Refresh", << >>, "answered", answer)
         /\ dsServers' = appendServers(Split(answer), << >>)
         /\ lastUpdate' = dsNow
         /\ dsRR' = << >>
         /\ dsStart' = index
         /\ dsBy' = "Refresh"

\* What the registry does with this Refresh: nothing when Refresh sends no
\* GET (ok and the empty answer stand for that); otherwise the GET fails
\* (ok = FALSE) or is answered with the header `answer`.
Replies(ok, answer) ==
    IF dsKind = "multi" \/ Fresh(lastUpdate, dsTimeout, dsNow)
    THEN ok /\ answer = << >>
    ELSE ~ok => answer = << >>

\* Some goroutine calls d.Refresh().
Refresh(answer, ok) ==
    /\ \E err \in {"nil", "getErr"} :
           /\ refresh(answer, ok, err)
           /\ dsRet' = [op |-> "Refresh", val |-> << >>, err |-> err]
    /\ UNCHANGED <<dsKind, index, dsTimeout, dsNow, dsPc, dsMode>>

\* An index that grows without wrapping around.
nextIndexUnwrapped(i, n) == i + 1

\* An index that stays where it is.
nextIndexStuck(i, n) == i % n

\* d.index = (d.index + 1) % n
nextIndex(i, n) == (i + 1) % n

\* The switch of MultiServersDiscovery.Get over a list of n > 0 servers.
selectServer(mode, n) ==
    CASE mode = RandomSelect ->
           /\ \E k \in 0 .. n - 1 :
                  dsRet' = [op |-> "Get", val |-> dsServers[k + 1], err |-> "nil"]
           /\ UNCHANGED <<index, dsRR>>
      [] mode = RoundRobinSelect ->
           /\ dsRet' = [op |-> "Get", val |-> dsServers[(index % n) + 1],
                        err |-> "nil"]
           /\ index' = nextIndex(index, n)
           /\ dsRR' = Append(dsRR, [addr |-> dsServers[(index % n) + 1],
                                    pos |-> index % n])
      [] OTHER ->
           /\ dsRet' = [op |-> "Get", val |-> << >>,
                        err |-> "not supported select mode"]
           /\ UNCHANGED <<index, dsRR>>

\* A Get that looks at the mode before it looks at the list.
multiGetModeFirst(mode) ==
    LET n == Len(dsServers) IN
    /\ Ran("Get", mode, "no", << >>)
    /\ IF mode \notin {RandomSelect, RoundRobinSelect}
       THEN /\ dsRet' = [op |-> "Get", val |-> << >>,
                         err |-> "not supported select mode"]
            /\ UNCHANGED <<index, dsRR>>
       ELSE IF n = 0
       THEN /\ dsRet' = [op |-> "Get", val |-> << >>,
                         err |-> "no available servers"]
            /\ UNCHANGED <<index, dsRR>>
       ELSE selectServer(mode, n)

\* The body of MultiServersDiscovery.Get(mode), under d.mu.
multiGet(mode) ==
    LET n == Len(dsServers) IN
    /\ Ran("Get", mode, "no", << >>)
    /\ IF n = 0
       THEN /\ dsRet' = [op |-> "Get", val |-> << >>,
                         err |-> "no available servers"]
            /\ UNCHANGED <<index, dsRR>>
       ELSE selectServer(mode, n)

\* MultiServersDiscovery.Get(mode), called on a MultiServersDiscovery.
Get(mode) ==
    /\ dsKind = "multi"
    /\ mode = RoundRobinSelect => Len(dsRR) < MaxGets
    /\ multiGet(mode)
    /\ UNCHANGED <<dsKind, dsServers, dsTimeout, lastUpdate, dsNow, dsPc,
                   dsMode, dsStart, dsBy>>

\* The body of MultiServersDiscovery.GetAll, under d.mu: a copy of the list.
multiGetAll ==
    /\ Ran("GetAll", << >>, "no", << >>)
    /\ dsRet' = [op |-> "GetAll", val |-> dsServers, err |-> "nil"]

\* MultiServersDiscovery.GetAll, called on a MultiServersDiscovery.
GetAll ==
    /\ dsKind = "multi"
    /\ multiGetAll
    /\ UNCHANGED <<dsKind, dsServers, index, dsTimeout, lastUpdate, dsNow,
                   dsPc, dsMode, dsRR, dsStart, dsBy>>

\* CenterRegistryDiscovery.Get(mode) and GetAll, first half: d.Refresh(),
\* whose error is returned at once.  d.mu is free again before the embedded
\* method takes it.
CenterRefresh(op, mode, answer, ok) ==
    /\ dsKind = "center"
    /\ dsPc = "idle"
    /\ \E err \in {"nil", "getErr"} :
           /\ refresh(answer, ok, err)
           /\ IF err # "nil"
              THEN /\ dsRet' = [op |-> op, val |-> << >>, err |-> err]
                   /\ UNCHANGED <<dsPc, dsMode>>
              ELSE /\ dsPc' = op
                   /\ dsMode' = mode
                   /\ dsRet' = [op |-> op, val |-> << >>, err |-> "pending"]
    /\ UNCHANGED <<dsKind, index, dsTimeout, dsNow>>

\* CenterRegistryDiscovery.Get(mode), second half:
\* return d.MultiServersDiscovery.Get(mode)
CenterGet ==
    /\ dsPc = "Get"
    /\ dsMode = RoundRobinSelect => Len(dsRR) < MaxGets
    /\ multiGet(dsMode)
    /\ dsPc' = "idle"
    /\ UNCHANGED <<dsKind, dsServers, dsTimeout, lastUpdate, dsNow, dsMode,
                   dsStart, dsBy>>

\* CenterRegistryDiscovery.GetAll, second half:
\* return d.MultiServersDiscovery.GetAll()
CenterGetAll ==
    /\ dsPc = "GetAll"
    /\ multiGetAll
    /\ dsPc' = "idle"
    /\ UNCHANGED <<dsKind, dsServers, index, dsTimeout, lastUpdate, dsNow,
                   dsMode, dsRR, dsStart, dsBy>>

\* Time passes.
DiscoveryTick ==
    /\ dsNow < StartTime + MaxClock
    /\ dsNow' = dsNow + 1
    /\ UNCHANGED <<dsKind, dsServers, index, dsTimeout, lastUpdate, dsPc,
                   dsMode, dsRet, dsLast, dsRR, dsStart, dsBy>>

(* --------------------------- claims: Discovery ------------------------- *)

\* The step runs the method op of the discovery.
Runs(op) == dsLast'.n # dsLast.n /\ dsLast'.op = op

\* C21: a Get on an empty server list returns the "no available servers"
\* error, whatever the selection mode, and leaves the round-robin index as it
\* was.
C21_EmptyGetFails ==
    [][(Runs("Get") /\ dsServers = << >>) =>
           /\ dsRet'.op = "Get"
           /\ dsRet'.err = "no available servers"
           /\ dsRet'.val = << >>
           /\ index' = index]_vars

\* C21 witness: a Get with a mode Get does not know, on an empty list of a
\* discovery whose index is not 0, has returned the error.
C21_Witness ==
    /\ dsLast.op = "Get"
    /\ dsLast.arg \notin {RandomSelect, RoundRobinSelect}
    /\ dsServers = << >>
    /\ dsRet.err = "no available servers"
    /\ index > 0

\* C22: while the server list stays the same list of n servers, the j-th
\* RoundRobin Get (j = 0, 1, ...) since the list was assigned, the index
\* being i at that time, returns servers[(i + j) mod n]; so any n
\* consecutive RoundRobin Gets select every position of the list exactly
\* once.
C22_RoundRobinCycles ==
    LET n == Len(dsServers) IN
    /\ \A j \in 1 .. Len(dsRR) :
           /\ n > 0
           /\ dsRR[j].pos = (dsStart + j - 1) % n
           /\ dsRR[j].addr = dsServers[((dsStart + j - 1) % n) + 1]
    /\ \A w \in 1 .. Len(dsRR) - n + 1 :
           /\ {dsRR[j].pos : j \in w .. w + n - 1} = 0 .. n - 1
           /\ \A j, k \in w .. w + n - 1 : j # k => dsRR[j].pos # dsRR[k].pos

\* C22 witness: MaxGets RoundRobin Gets on a list of two different servers,
\* the index having started outside 0 .. n - 1.
C22_Witness ==
    /\ Len(dsServers) = 2
    /\ dsServers[1] # dsServers[2]
    /\ Len(dsRR) = MaxGets
    /\ dsStart >= 2

\* The trimmed non-empty comma-separated entries of a header value.
Entries(answer) ==
    LET pieces == Split(answer)
        trimmed == [i \in 1 .. Len(pieces) |-> TrimSpace(pieces[i])]
    IN  SelectSeq(trimmed, LAMBDA p : p # << >>)

\* C23: a Refresh of the registry-backed discovery sends no registry GET and
\* leaves the list and lastUpdate alone while lastUpdate + timeout > now;
\* otherwise it sends the GET and, given the registry's answer, the list
\* becomes the trimmed non-empty comma-separated entries of the answer and
\* lastUpdate becomes now.  Update assigns the list and stamps lastUpdate, so
\* a Refresh within the timeout of an Update leaves the updated list in
\* place.
C23_RefreshHonoursTTL ==
    [][/\ (Runs("Refresh") /\ dsKind = "center") =>
              IF lastUpdate + dsTimeout > dsNow
              THEN /\ dsLast'.fetched = "no"
                   /\ dsServers' = dsServers
                   /\ lastUpdate' = lastUpdate
                   /\ dsBy' = dsBy
              ELSE /\ dsLast'.fetched # "no"
                   /\ dsLast'.fetched = "answered" =>
                          /\ dsServers' = Entries(dsLast'.answer)
                          /\ \A i \in 1 .. Len(dsServers') :
                                 /\ dsServers'[i] # << >>
                                 /\ Head(dsServers'[i]) # " "
                                 /\ dsServers'[i][Len(dsServers'[i])] # " "
                                 /\ \A k \in 1 .. Len(dsServers'[i]) :
                                        dsServers'[i][k] # ","
                          /\ lastUpdate' = dsNow
       /\ (Runs("Update") /\ dsKind = "center") =>
              /\ dsServers' = dsLast'.arg
              /\ lastUpdate' = dsNow
              /\ dsBy' = "Update"
       /\ (/\ Runs("Refresh")
           /\ dsBy = "Update"
           /\ dsNow < lastUpdate + dsTimeout) =>
              /\ dsServers' = dsServers
              /\ dsBy' = "Update"]_vars

\* C23 witness: the list came from the registry (an answer with blanks and
\* an empty entry), time passed, an Update replaced it, time passed again,
\* and a Refresh within the timeout left the updated list alone.
C23_Witness ==
    /\ dsKind = "center"
    /\ dsBy = "Update"
    /\ dsLast.op = "Refresh"
    /\ dsLast.fetched = "no"
    /\ dsServers # << >>
    /\ lastUpdate > StartTime
    /\ dsNow > lastUpdate

\* C23 witness of the other case: a Refresh after the timeout replaced the
\* list by the one entry of an answer that starts with a blank.
C23_WitnessExpired ==
    /\ dsKind = "center"
    /\ dsLast.op = "Refresh"
    /\ dsLast.fetched = "answered"
    /\ dsLast.answer = <<" ", "a">>
    /\ dsServers = <<<<"a">>>>
    /\ lastUpdate = dsNow
    /\ dsNow >= StartTime + 2

\* C39: however Update (with lists of any size) and Get interleave, a Random
\* or RoundRobin Get on a non-empty list returns, without an error, an
\* element of the list as it is when Get runs; the position a RoundRobin Get
\* reads is inside the list and the index is in 0 .. n - 1 after it, n being
\* the length of that list; the index is never negative.
C39_GetStaysInsideList ==
    /\ [](index >= 0)
    /\ [][(/\ Runs("Get")
           /\ dsLast'.arg \in {RandomSelect, RoundRobinSelect}
           /\ dsServers # << >>) =>
              LET n == Len(dsServers) IN
              /\ dsServers' = dsServers
              /\ dsRet'.err = "nil"
              /\ \E k \in 1 .. n : dsRet'.val = dsServers[k]
              /\ dsLast'.arg = RoundRobinSelect =>
                    /\ (index % n) + 1 \in 1 .. n
                    /\ dsRet'.val = dsServers[(index % n) + 1]
                    /\ index' \in 0 .. n - 1
              /\ dsLast'.arg = RandomSelect => index' = index
      ]_vars

\* C39 witness: when Update shrank the list to one server the index stood
\* beyond it, and a RoundRobin Get has since returned that server and left
\* the index at 0.
C39_Witness ==
    /\ dsBy = "Update"
    /\ Len(dsServers) = 1
    /\ dsStart >= 1
    /\ dsLast.op = "Get"
    /\ dsLast.arg = RoundRobinSelect
    /\ Len(dsRR) >= 1
    /\ dsRet.val = dsServers[1]
    /\ index = 0

\* C40: a Refresh whose registry GET fails returns the error and leaves the
\* list and lastUpdate as they were; a Get or GetAll whose Refresh failed
\* returns that error, no address, and does not go on to the embedded Get or
\* GetAll (the index stays); and when the next thing called on the discovery
\* is again a Refresh, Get or GetAll, the GET is attempted again.
C40_FailedGetKeepsCache ==
    [][/\ (Runs("Refresh") /\ dsLast'.fetched = "failed") =>
              /\ dsKind = "center"
              /\ dsServers' = dsServers
              /\ lastUpdate' = lastUpdate
              /\ index' = index
              /\ dsRR' = dsRR
              /\ dsRet'.err = "getErr"
              /\ dsRet'.val = << >>
              /\ dsRet'.op \in {"Refresh", "Get", "GetAll"}
              /\ dsPc' = dsPc
       /\ (dsLast.fetched = "failed" /\ Runs("Refresh")) =>
              dsLast'.fetched \in {"failed", "answered"}
      ]_vars

\* C40 witness: the discovery holds a list the registry gave it earlier, the
\* list has expired, and a Get has returned the error of the failed GET.
C40_Witness ==
    /\ dsKind = "center"
    /\ dsBy = "Refresh"
    /\ dsServers # << >>
    /\ lastUpdate > ZeroTime
    /\ dsLast.op = "Refresh" /\ dsLast.fetched = "failed"
    /\ dsRet = [op |-> "Get", val |-> << >>, err |-> "getErr"]
    /\ dsPc = "idle"

(* ------------------------------- XClient ------------------------------- *)

\* Goroutines using the XClient.
XCallers == 1 .. NumXCallers

\* The clients XDial can build, named in the order they are built.
ClientIds == 1 .. MaxClients

\* The addresses Discovery.Get hands out and dial is called with.
RpcAddrs == {"tcp@a", "tcp@b"}

\* A nil *Client.
NoClient == 0

\* The zero rpcAddr of a goroutine that is not in dial or Call.
NoRpcAddr == ""

\* What a lookup that has not run found.
NoLook == [found |-> NoClient, available |-> FALSE]

\* What a goroutine that has not returned from dial or Call got.
NoXcRet == [op |-> "none", client |-> NoClient, err |-> "nil"]

\* A client that answers IsAvailable with TRUE whatever its state.
IsAvailableAlways(c) == TRUE

\* Client.IsAvailable: !client.isShutdown && !client.isClosed
IsAvailable(c) == cliState[c] = "open"

\* The next client XDial builds (NoClient: the model builds no more).
NewClientId ==
    IF \E c \in ClientIds : cliState[c] = "none"
    THEN CHOOSE c \in ClientIds :
             /\ cliState[c] = "none"
             /\ \A b \in ClientIds : b < c => cliState[b] # "none"
    ELSE NoClient

\* NewXClient(d, mode, opt): an empty cache, nobody using it.
XClientInit ==
    /\ clients = [a \in RpcAddrs |-> NoClient]
    /\ xcMu = Free
    /\ xcPc = [g \in XCallers |-> "idle"]
    /\ xcAddr = [g \in XCallers |-> NoRpcAddr]
    /\ xcClient = [g \in XCallers |-> NoClient]
    /\ xcRet = [g \in XCallers |-> NoXcRet]
    /\ cliState = [c \in ClientIds |-> "none"]
    /\ cliAddr = [c \in ClientIds |-> NoRpcAddr]
    /\ cliBy = [c \in ClientIds |-> "none"]
    /\ xcLook = [g \in XCallers |-> NoLook]
    /\ xcCalls = << >>

\* An XClient nobody uses.
XClientIdle == XClientInit

\* Goroutine g returns from dial or from Call: its locals are gone.
Leaves(g) ==
    /\ xcAddr' = [xcAddr EXCEPT ![g] = NoRpcAddr]
    /\ xcClient' = [xcClient EXCEPT ![g] = NoClient]
    /\ xcLook' = [xcLook EXCEPT ![g] = NoLook]

\* A goroutine calls xc.dial(rpcAddr).
XcDial(g, addr) ==
    /\ xcPc[g] = "idle"
    /\ xcPc' = [xcPc EXCEPT ![g] = "lock"]
    /\ xcAddr' = [xcAddr EXCEPT ![g] = addr]
    /\ UNCHANGED <<clients, xcMu, xcClient, xcRet, cliState, cliAddr, cliBy,
                   xcLook, xcCalls>>

\* A dial that does not wait for xc.mu.
XcDialLockSkipped(g) ==
    /\ xcPc[g] = "lock"
    /\ xcPc' = [xcPc EXCEPT ![g] = "lookup"]
    /\ UNCHANGED <<clients, xcMu, xcAddr, xcClient, xcRet, cliState, cliAddr,
                   cliBy, xcLook, xcCalls>>

\* dial: xc.mu.Lock()
XcDialLock(g) ==
    /\ xcPc[g] = "lock"
    /\ xcMu = Free
    /\ xcMu' = g
    /\ xcPc' = [xcPc EXCEPT ![g] = "lookup"]
    /\ UNCHANGED <<clients, xcAddr, xcClient, xcRet, cliState, cliAddr, cliBy,
                   xcLook, xcCalls>>

\* dial: client, ok := xc.clients[rpcAddr]; a cached client that is not
\* available is closed, deleted from the cache and forgotten.
XcDialLookup(g) ==
    LET c == clients[xcAddr[g]] IN
    /\ xcPc[g] = "lookup"
    /\ xcLook' = [xcLook EXCEPT ![g] =
                     [found |-> c,
                      available |-> c # NoClient /\ IsAvailable(c)]]
    /\ IF c # NoClient /\ ~IsAvailable(c)
       THEN /\ cliState' = [cliState EXCEPT ![c] = "closed"]
            /\ clients' = [clients EXCEPT ![xcAddr[g]] = NoClient]
            /\ xcClient' = [xcClient EXCEPT ![g] = NoClient]
       ELSE /\ xcClient' = [xcClient EXCEPT ![g] = c]
            /\ UNCHANGED <<clients, cliState>>
    /\ xcPc' = [xcPc EXCEPT ![g] =
                   IF xcClient'[g] = NoClient THEN "xdial" ELSE "return"]
    /\ UNCHANGED <<xcMu, xcAddr, xcRet, cliAddr, cliBy, xcCalls>>

\* dial with client == nil: client, err = XDial(rpcAddr, xc.opt).  An error
\* is returned at once (the deferred Unlock runs); a client is stored in
\* the cache.
XcDialXDial(g, ok) ==
    /\ xcPc[g] = "xdial"
    /\ IF ok
       THEN /\ NewClientId # NoClient
            /\ cliState' = [cliState EXCEPT ![NewClientId] = "open"]
            /\ cliAddr' = [cliAddr EXCEPT ![NewClientId] = xcAddr[g]]
            /\ cliBy' = [cliBy EXCEPT ![NewClientId] = "dial"]
            /\ xcClient' = [xcClient EXCEPT ![g] = NewClientId]
            /\ clients' = [clients EXCEPT ![xcAddr[g]] = NewClientId]
            /\ xcPc' = [xcPc EXCEPT ![g] = "return"]
            /\ UNCHANGED <<xcMu, xcRet, xcAddr, xcLook>>
       ELSE /\ xcRet' = [xcRet EXCEPT ![g] =
                            [op |-> "dial", client |-> NoClient,
                             err |-> "dialErr"]]
            /\ xcMu' = Free
            /\ xcPc' = [xcPc EXCEPT ![g] = "idle"]
            /\ Leaves(g)
            /\ UNCHANGED <<clients, cliState, cliAddr, cliBy>>
    /\ UNCHANGED xcCalls

\* dial: return client, nil, and the deferred xc.mu.Unlock().
XcDialReturn(g) ==
    /\ xcPc[g] = "return"
    /\ xcRet' = [xcRet EXCEPT ![g] =
                    [op |-> "dial", client |-> xcClient[g], err |-> "nil"]]
    /\ xcMu' = Free
    /\ xcPc' = [xcPc EXCEPT ![g] = "idle"]
    /\ Leaves(g)
    /\ UNCHANGED <<clients, cliState, cliAddr, cliBy, xcCalls>>

\* XClient.Call: rpcAddr, err := xc.d.Get(xc.mode); an error of the
\* discovery is returned at once.
XcCallGet(g, addr, ok) ==
    /\ xcPc[g] = "idle"
    /\ Len(xcCalls) < NumXCalls
    /\ IF ok
       THEN /\ xcAddr' = [xcAddr EXCEPT ![g] = addr]
            /\ xcPc' = [xcPc EXCEPT ![g] = "call"]
            /\ UNCHANGED xcRet
       ELSE /\ xcRet' = [xcRet EXCEPT ![g] =
                            [op |-> "Call", client |-> NoClient,
                             err |-> "getErr"]]
            /\ UNCHANGED <<xcAddr, xcPc>>
    /\ UNCHANGED <<clients, xcMu, xcClient, cliState, cliAddr, cliBy, xcLook,
                   xcCalls>>

\* XClient.call: client, err := XDial(rpcAddr).  The cache is neither read
\* nor written.
XcCallXDial(g, ok) ==
    /\ xcPc[g] = "call"
    /\ IF ok
       THEN /\ NewClientId # NoClient
            /\ cliState' = [cliState EXCEPT ![NewClientId] = "open"]
            /\ cliAddr' = [cliAddr EXCEPT ![NewClientId] = xcAddr[g]]
            /\ cliBy' = [cliBy EXCEPT ![NewClientId] = "call"]
            /\ xcClient' = [xcClient EXCEPT ![g] = NewClientId]
            /\ xcPc' = [xcPc EXCEPT ![g] = "invoke"]
            /\ UNCHANGED <<xcRet, xcAddr, xcLook>>
       ELSE /\ xcRet' = [xcRet EXCEPT ![g] =
                            [op |-> "Call", client |-> NoClient,
                             err |-> "dialErr"]]
            /\ xcPc' = [xcPc EXCEPT ![g] = "idle"]
            /\ Leaves(g)
            /\ UNCHANGED <<cliState, cliAddr, cliBy>>
    /\ UNCHANGED <<clients, xcMu, xcCalls>>

\* XClient.call: return client.Call(ctx, serviceMethod, args, reply).
XcCallInvoke(g, err) ==
    /\ xcPc[g] = "invoke"
    /\ xcCalls' = Append(xcCalls, [addr |-> xcAddr[g], client |-> xcClient[g]])
    /\ xcRet' = [xcRet EXCEPT ![g] =
                    [op |-> "Call", client |-> xcClient[g], err |-> err]]
    /\ xcPc' = [xcPc EXCEPT ![g] = "idle"]
    /\ Leaves(g)
    /\ UNCHANGED <<clients, xcMu, cliState, cliAddr, cliBy>>

\* XClient.Close, under xc.mu: every cached client is closed and deleted.
XcClose ==
    /\ xcMu = Free
    /\ \E a \in RpcAddrs : clients[a] # NoClient
    /\ cliState' = [c \in ClientIds |->
                       IF \E a \in RpcAddrs : clients[a] = c
                       THEN "closed" ELSE cliState[c]]
    /\ clients' = [a \in RpcAddrs |-> NoClient]
    /\ UNCHANGED <<xcMu, xcPc, xcAddr, xcClient, xcRet, cliAddr, cliBy,
                   xcLook, xcCalls>>

\* The receive goroutine of a client meets a read error: terminateCalls
\* sets isShutdown.
ClientShutsDown(c) ==
    /\ cliState[c] = "open"
    /\ cliState' = [cliState EXCEPT ![c] = "shutdown"]
    /\ UNCHANGED <<clients, xcMu, xcPc, xcAddr, xcClient, xcRet, cliAddr,
                   cliBy, xcLook, xcCalls>>

(* ---------------------------- claims: XClient -------------------------- *)

\* The XDial calls that built a client for address a.
XDials(a) == {c \in ClientIds : cliState[c] # "none" /\ cliAddr[c] = a}

\* C24 (as claimed): two XClient.Calls routed to the same address, the
\* client of the first still available, use the same Client, and one XDial
\* was made for that address.
C24_CallReusesCachedClient ==
    \A i, j \in 1 .. Len(xcCalls) :
        (/\ i < j
         /\ xcCalls[i].addr = xcCalls[j].addr
         /\ IsAvailable(xcCalls[i].client)) =>
            /\ xcCalls[i].client = xcCalls[j].client
            /\ Cardinality(XDials(xcCalls[i].addr)) = 1

\* The step on which goroutine g returns from dial.
DialReturns(g) == xcPc[g] \in {"xdial", "return"} /\ xcPc'[g] = "idle"

\* C25: dial never hands out a cached client that was unavailable when it
\* looked it up: that client is closed and evicted, and the client returned
\* is one that XDial has just built and dial has stored.  When dial returns
\* a client the cache maps the address to exactly that client; when XDial
\* fails dial returns the error and the cache has no entry for the address.
\* However many goroutines dial one address, at most one available client
\* built by dial exists for it, and it is the cached one.
C25_DialKeepsCacheSound ==
    /\ [](/\ \A c \in ClientIds :
                 (cliBy[c] = "dial" /\ IsAvailable(c)) => clients[cliAddr[c]] = c
          /\ \A a \in RpcAddrs :
                 Cardinality({c \in ClientIds : /\ cliBy[c] = "dial"
                                                /\ cliAddr[c] = a
                                                /\ IsAvailable(c)}) <= 1
          /\ \A g \in XCallers :
                 (/\ xcPc[g] \in {"xdial", "return"}
                  /\ xcLook[g].found # NoClient
                  /\ ~xcLook[g].available) =>
                     /\ cliState[xcLook[g].found] = "closed"
                     /\ xcClient[g] # xcLook[g].found
                     /\ clients[xcAddr[g]] # xcLook[g].found)
    /\ [][\A g \in XCallers :
              DialReturns(g) =>
                  IF xcRet'[g].err = "nil"
                  THEN /\ xcRet'[g].client # NoClient
                       /\ clients'[xcAddr[g]] = xcRet'[g].client
                       /\ cliAddr[xcRet'[g].client] = xcAddr[g]
                       /\ \/ /\ xcRet'[g].client = xcLook[g].found
                             /\ xcLook[g].available
                          \/ /\ xcRet'[g].client # xcLook[g].found
                             /\ cliBy[xcRet'[g].client] = "dial"
                  ELSE /\ xcRet'[g].client = NoClient
                       /\ clients'[xcAddr[g]] = NoClient]_vars

\* C25 witness: goroutine 1 got a client from dial; that client shut down;
\* goroutine 2, dialling the same address, found it, closed and evicted it,
\* and is about to return a second client, now the cached one.
C25_Witness ==
    /\ xcRet[1].op = "dial" /\ xcRet[1].client # NoClient
    /\ xcPc[2] = "return"
    /\ xcLook[2].found = xcRet[1].client
    /\ ~xcLook[2].available
    /\ cliState[xcRet[1].client] = "closed"
    /\ xcClient[2] # xcRet[1].client
    /\ clients[xcAddr[2]] = xcClient[2]
    /\ cliState[xcClient[2]] = "open"

(* ------------------------------ Broadcast ------------------------------ *)

\* The goroutines of one Broadcast, one per server GetAll can return.
Tasks == 1 .. NumServers

\* var e error, before a failure is recorded.
NoError == [task |-> 0, err |-> "nil"]

\* The reply the server of task t sends: the servers answer differently.
ReplyOf(t) == t

\* The zero value reflect.New allocates, and the caller's reply storage
\* before anything is assigned to it.
ZeroReply == 0

\* A nil clonedReply (reply == nil) and a goroutine not started.
NilReply == -1

\* The locals of a Broadcast at position pc whose caller passed a nil reply
\* or not, no goroutine started.
BroadcastStart(at, nilReply) ==
    /\ bcPc = at
    /\ bcServers = 0
    /\ bcSpawned = 0
    /\ bcWg = 0
    /\ bcMu = Free
    /\ bcE = NoError
    /\ replyDone = FALSE
    /\ cancelled = FALSE
    /\ replyNil = nilReply
    /\ reply = ZeroReply
    /\ bcRet = "none"
    /\ tPc = [t \in Tasks |-> "none"]
    /\ tErr = [t \in Tasks |-> "none"]
    /\ clonedReply = [t \in Tasks |-> NilReply]
    /\ tPending = [t \in Tasks |-> FALSE]
    /\ tDone = [t \in Tasks |-> FALSE]
    /\ tCallErr = [t \in Tasks |-> "nil"]
    /\ bcFails = << >>
    /\ bcOks = << >>
    /\ bcSets = << >>
    /\ tEarly = [t \in Tasks |-> FALSE]
    /\ parentDone = FALSE

\* Broadcast is called, with reply nil or not.
BroadcastInit == \E nilReply \in BOOLEAN : BroadcastStart("getall", nilReply)

\* Nobody calls Broadcast.
BroadcastIdle == BroadcastStart("idle", FALSE)

\* Broadcast: servers, err := xc.d.GetAll(), an error being returned at
\* once; then replyDone := reply == nil and the child context.
BcGetAll(ok, n) ==
    /\ bcPc = "getall"
    /\ IF ok
       THEN /\ bcServers' = n
            /\ replyDone' = replyNil
            /\ bcPc' = "range"
            /\ UNCHANGED bcRet
       ELSE /\ bcRet' = "getErr"
            /\ bcPc' = "returned"
            /\ UNCHANGED <<bcServers, replyDone>>
    /\ UNCHANGED <<bcSpawned, bcWg, bcMu, bcE, cancelled, replyNil, reply,
                   tPc, tErr, clonedReply, tPending, tDone, tCallErr, bcFails,
                   bcOks, bcSets, tEarly, parentDone>>

\* Broadcast, one turn of the range loop: wg.Add(1); go func(rpcAddr).
BcSpawn ==
    /\ bcPc = "range"
    /\ bcSpawned < bcServers
    /\ bcSpawned' = bcSpawned + 1
    /\ bcWg' = bcWg + 1
    /\ tPc' = [tPc EXCEPT ![bcSpawned + 1] = "clone"]
    /\ UNCHANGED <<bcPc, bcServers, bcMu, bcE, replyDone, cancelled, replyNil,
                   reply, bcRet, tErr, clonedReply, tPending, tDone, tCallErr,
                   bcFails, bcOks, bcSets, tEarly, parentDone>>

\* Broadcast: the range loop is over.
BcRangeEnd ==
    /\ bcPc = "range"
    /\ bcSpawned = bcServers
    /\ bcPc' = "wait"
    /\ UNCHANGED <<bcServers, bcSpawned, bcWg, bcMu, bcE, replyDone, cancelled,
                   replyNil, reply, bcRet, tPc, tErr, clonedReply, tPending,
                   tDone, tCallErr, bcFails, bcOks, bcSets, tEarly, parentDone>>

\* A Broadcast that does not wait for its goroutines.
BcWaitSkipped ==
    /\ bcPc = "wait"
    /\ bcRet' = bcE.err
    /\ bcPc' = "returned"
    /\ UNCHANGED <<bcServers, bcSpawned, bcWg, bcMu, bcE, replyDone, cancelled,
                   replyNil, reply, tPc, tErr, clonedReply, tPending, tDone,
                   tCallErr, bcFails, bcOks, bcSets, tEarly, parentDone>>

\* Broadcast: wg.Wait(); return e.
BcWait ==
    /\ bcPc = "wait"
    /\ bcWg = 0
    /\ bcRet' = bcE.err
    /\ bcPc' = "returned"
    /\ UNCHANGED <<bcServers, bcSpawned, bcWg, bcMu, bcE, replyDone, cancelled,
                   replyNil, reply, tPc, tErr, clonedReply, tPending, tDone,
                   tCallErr, bcFails, bcOks, bcSets, tEarly, parentDone>>

\* The goroutine: clonedReply is a new zero value when reply is not nil.
TaskClone(t) ==
    /\ tPc[t] = "clone"
    /\ clonedReply' = [clonedReply EXCEPT ![t] =
                          IF replyNil THEN NilReply ELSE ZeroReply]
    /\ tPc' = [tPc EXCEPT ![t] = "xdial"]
    /\ UNCHANGED <<bcPc, bcServers, bcSpawned, bcWg, bcMu, bcE, replyDone,
                   cancelled, replyNil, reply, bcRet, tErr, tPending, tDone,
                   tCallErr, bcFails, bcOks, bcSets, tEarly, parentDone>>

\* xc.call: client, err := XDial(rpcAddr); an error is what call returns.
TaskXDial(t, ok) ==
    /\ tPc[t] = "xdial"
    /\ IF ok
       THEN /\ tPc' = [tPc EXCEPT ![t] = "go"]
            /\ UNCHANGED tErr
       ELSE /\ tErr' = [tErr EXCEPT ![t] = "dialErr"]
            /\ tPc' = [tPc EXCEPT ![t] = "lock"]
    /\ UNCHANGED <<bcPc, bcServers, bcSpawned, bcWg, bcMu, bcE, replyDone,
                   cancelled, replyNil, reply, bcRet, clonedReply, tPending,
                   tDone, tCallErr, bcFails, bcOks, bcSets, tEarly, parentDone>>

\* Client.Call: call := client.Go(serviceMethod, args, reply, make(chan
\* *Call, 1)).  send registers the call and writes the request; when it can
\* not, the call ends at once with the error, on its Done channel.
TaskGo(t, ok) ==
    /\ tPc[t] = "go"
    /\ IF ok
       THEN /\ tPending' = [tPending EXCEPT ![t] = TRUE]
            /\ UNCHANGED <<tDone, tCallErr, tEarly>>
       ELSE /\ tCallErr' = [tCallErr EXCEPT ![t] = "sendErr"]
            /\ tDone' = [tDone EXCEPT ![t] = TRUE]
            /\ tEarly' = [tEarly EXCEPT ![t] = bcE = NoError]
            /\ UNCHANGED tPending
    /\ tPc' = [tPc EXCEPT ![t] = "select"]
    /\ UNCHANGED <<bcPc, bcServers, bcSpawned, bcWg, bcMu, bcE, replyDone,
                   cancelled, replyNil, reply, bcRet, tErr, clonedReply,
                   bcFails, bcOks, bcSets, parentDone>>

\* The receive goroutine of the task's client gets the response of a call
\* still pending: it removes the call, decodes the body into call.Reply
\* (the task's clonedReply) or sets call.Error, and signals Done.
TaskReceive(t, err) ==
    /\ tPending[t]
    /\ tPending' = [tPending EXCEPT ![t] = FALSE]
    /\ tCallErr' = [tCallErr EXCEPT ![t] = err]
    /\ clonedReply' = [clonedReply EXCEPT ![t] =
                          IF err = "nil" /\ ~replyNil THEN ReplyOf(t) ELSE @]
    /\ tDone' = [tDone EXCEPT ![t] = TRUE]
    /\ tEarly' = [tEarly EXCEPT ![t] = bcE = NoError]
    /\ UNCHANGED <<bcPc, bcServers, bcSpawned, bcWg, bcMu, bcE, replyDone,
                   cancelled, replyNil, reply, bcRet, tPc, tErr, bcFails,
                   bcOks, bcSets, parentDone>>

\* Client.Call's select, case call = <-call.Done: return call.Error.
TaskSelectDone(t) ==
    /\ tPc[t] = "select"
    /\ tDone[t]
    /\ tDone' = [tDone EXCEPT ![t] = FALSE]
    /\ tErr' = [tErr EXCEPT ![t] = tCallErr[t]]
    /\ tPc' = [tPc EXCEPT ![t] = "lock"]
    /\ UNCHANGED <<bcPc, bcServers, bcSpawned, bcWg, bcMu, bcE, replyDone,
                   cancelled, replyNil, reply, bcRet, clonedReply, tPending,
                   tCallErr, bcFails, bcOks, bcSets, tEarly, parentDone>>

\* Client.Call's select, case <-ctx.Done(): client.removeCall(call.Seq) and
\* the "call failed" error.
TaskSelectCancel(t) ==
    /\ tPc[t] = "select"
    /\ cancelled
    /\ tPending' = [tPending EXCEPT ![t] = FALSE]
    /\ tErr' = [tErr EXCEPT ![t] = "ctxErr"]
    /\ tPc' = [tPc EXCEPT ![t] = "lock"]
    /\ UNCHANGED <<bcPc, bcServers, bcSpawned, bcWg, bcMu, bcE, replyDone,
                   cancelled, replyNil, reply, bcRet, clonedReply, tDone,
                   tCallErr, bcFails, bcOks, bcSets, tEarly, parentDone>>

\* The context the caller passed is cancelled or its deadline passes: the
\* child context is cancelled with it.
ParentCancels ==
    /\ bcPc \in {"range", "wait"}
    /\ ~parentDone
    /\ parentDone' = TRUE
    /\ cancelled' = TRUE
    /\ UNCHANGED <<bcPc, bcServers, bcSpawned, bcWg, bcMu, bcE, replyDone,
                   replyNil, reply, bcRet, tPc, tErr, clonedReply, tPending,
                   tDone, tCallErr, bcFails, bcOks, bcSets, tEarly>>

\* The goroutine: mu.Lock()
TaskLock(t) ==
    /\ tPc[t] = "lock"
    /\ bcMu = Free
    /\ bcMu' = t
    /\ tPc' = [tPc EXCEPT ![t] = "record"]
    /\ UNCHANGED <<bcPc, bcServers, bcSpawned, bcWg, bcE, replyDone, cancelled,
                   replyNil, reply, bcRet, tErr, clonedReply, tPending, tDone,
                   tCallErr, bcFails, bcOks, bcSets, tEarly, parentDone>>

\* A record that copies the reply of a call whatever the call returned.
recordIgnoresErr(t) ==
    /\ IF tErr[t] # "nil" /\ bcE = NoError
       THEN /\ bcE' = [task |-> t, err |-> tErr[t]]
            /\ cancelled' = TRUE
       ELSE UNCHANGED <<bcE, cancelled>>
    /\ IF ~replyDone
       THEN /\ reply' = clonedReply[t]
            /\ replyDone' = TRUE
            /\ bcSets' = Append(bcSets, t)
       ELSE UNCHANGED <<reply, replyDone, bcSets>>

\* A record that stores every error and every reply.
recordAlways(t) ==
    /\ IF tErr[t] # "nil"
       THEN /\ bcE' = [task |-> t, err |-> tErr[t]]
            /\ cancelled' = TRUE
       ELSE UNCHANGED <<bcE, cancelled>>
    /\ IF tErr[t] = "nil" /\ ~replyNil
       THEN /\ reply' = clonedReply[t]
            /\ replyDone' = TRUE
            /\ bcSets' = Append(bcSets, t)
       ELSE UNCHANGED <<reply, replyDone, bcSets>>

\* The two ifs of the goroutine, under mu: the first error is stored and
\* the context cancelled; the first reply is copied to the caller's storage.
record(t) ==
    /\ IF tErr[t] # "nil" /\ bcE = NoError
       THEN /\ bcE' = [task |-> t, err |-> tErr[t]]
            /\ cancelled' = TRUE
       ELSE UNCHANGED <<bcE, cancelled>>
    /\ IF tErr[t] = "nil" /\ ~replyDone
       THEN /\ reply' = clonedReply[t]
            /\ replyDone' = TRUE
            /\ bcSets' = Append(bcSets, t)
       ELSE UNCHANGED <<reply, replyDone, bcSets>>

\* The goroutine between mu.Lock() and mu.Unlock().
TaskRecord(t) ==
    /\ tPc[t] = "record"
    /\ record(t)
    /\ bcFails' = IF tErr[t] # "nil" THEN Append(bcFails, t) ELSE bcFails
    /\ bcOks' = IF tErr[t] = "nil" THEN Append(bcOks, t) ELSE bcOks
    /\ bcMu' = Free
    /\ tPc' = [tPc EXCEPT ![t] = "exit"]
    /\ UNCHANGED <<bcPc, bcServers, bcSpawned, bcWg, replyNil, bcRet, tErr,
                   clonedReply, tPending, tDone, tCallErr, tEarly, parentDone>>

\* The goroutine's deferred wg.Done().
TaskExit(t) ==
    /\ tPc[t] = "exit"
    /\ bcWg' = bcWg - 1
    /\ tPc' = [tPc EXCEPT ![t] = "done"]
    /\ UNCHANGED <<bcPc, bcServers, bcSpawned, bcMu, bcE, replyDone, cancelled,
                   replyNil, reply, bcRet, tErr, clonedReply, tPending, tDone,
                   tCallErr, bcFails, bcOks, bcSets, tEarly, parentDone>>

(* --------------------------- claims: Broadcast ------------------------- *)

\* The goroutines Broadcast started.
Started == 1 .. bcSpawned

\* Broadcast has returned after GetAll gave it the servers.
Fanned == bcPc = "returned" /\ bcRet # "getErr"

\* C26: Broadcast returns only after every goroutine it started has
\* finished.  It returns nil exactly when the call of every goroutine
\* succeeded, and otherwise the error of the goroutine that was first to
\* take the mutex with a failed call.  That goroutine cancels the child
\* context, and the error it recorded is not replaced by a later failure.
C26_BroadcastReturnsFirstError ==
    /\ Fanned =>
           /\ bcSpawned = bcServers
           /\ \A t \in Started : tPc[t] = "done"
           /\ bcRet = "nil" <=> \A t \in Started : tErr[t] = "nil"
           /\ bcRet # "nil" =>
                  /\ bcFails # << >>
                  /\ bcRet = tErr[bcFails[1]]
    /\ bcFails = << >> <=> bcE = NoError
    /\ bcFails # << >> => cancelled
    /\ cancelled => (bcFails # << >> \/ parentDone)
    /\ bcFails # << >> =>
           /\ bcE = [task |-> bcFails[1], err |-> tErr[bcFails[1]]]
           /\ bcE.err # "nil"

\* C26 witness: Broadcast has returned the error of the first of two
\* goroutines that failed, with different errors.
C26_Witness ==
    /\ Fanned
    /\ Len(bcFails) = 2
    /\ tErr[bcFails[1]] # tErr[bcFails[2]]
    /\ bcFails[1] > bcFails[2]
    /\ bcRet = tErr[bcFails[1]]

\* C27: with a reply that is not nil, the caller's reply storage is
\* assigned at most once, by the goroutine that was first to take the mutex
\* with a successful call and with the reply of that call; no later success
\* changes it.  A response is decoded into the clonedReply of its own
\* goroutine: the caller's storage changes only by that one assignment.
C27_ReplyAssignedOnce ==
    /\ [](/\ Len(bcSets) <= 1
          /\ bcSets = << >> => reply = ZeroReply
          /\ bcSets # << >> =>
                 /\ ~replyNil
                 /\ bcSets[1] = bcOks[1]
                 /\ reply = ReplyOf(bcSets[1])
          /\ (bcOks # << >> /\ ~replyNil) => bcSets = <<bcOks[1]>>
          /\ \A t \in Tasks :
                 clonedReply[t] \in {NilReply, ZeroReply, ReplyOf(t)})
    /\ [][reply' # reply =>
              \E t \in Tasks :
                  /\ tPc[t] = "record"
                  /\ tErr[t] = "nil"
                  /\ bcOks = << >>
                  /\ reply' = clonedReply[t]]_vars

\* C27 witness: two goroutines succeeded; the caller's storage holds the
\* reply of the one that took the mutex first, not of the later one.
C27_Witness ==
    /\ Len(bcOks) = 2
    /\ bcOks[1] > bcOks[2]
    /\ bcSets = <<bcOks[1]>>
    /\ reply = ReplyOf(bcOks[1])
    /\ clonedReply[bcOks[2]] = ReplyOf(bcOks[2])
    /\ bcPc = "returned"

\* C28 (as claimed): when a server failed, the caller's reply storage holds
\* the reply of a sibling only if the call of that sibling completed before
\* the context was cancelled.
C28_ReplyOnlyFromEarlySibling ==
    \A s \in Tasks :
        (bcE # NoError /\ bcSets = <<s>>) => tEarly[s]

\* C28 (amended): when a server failed, the caller's reply storage holds
\* the reply of a sibling only if the Client.Call of that sibling returned
\* nil, that is, its select took the Done case; a sibling whose select took
\* the cancellation case returns the "call failed" error and its reply is
\* never in the caller's storage, delivered to its clonedReply or not.
C28_ReplyOnlyFromReturnedCall ==
    \A s \in Tasks :
        /\ (reply = ReplyOf(s) \/ s \in {bcSets[i] : i \in 1 .. Len(bcSets)}) =>
               /\ tErr[s] = "nil"
               /\ bcSets = <<s>>
        /\ tErr[s] = "ctxErr" =>
               /\ cancelled
               /\ reply # ReplyOf(s)
               /\ bcSets # <<s>>

\* C28 witness: one server failed and Broadcast returned its error; the
\* call of a sibling was cancelled after its response had been decoded into
\* its clonedReply, and the caller's storage is untouched.
C28_Witness ==
    /\ Fanned
    /\ bcRet # "nil"
    /\ ~parentDone
    /\ \E s \in Tasks :
           /\ tErr[s] = "ctxErr"
           /\ clonedReply[s] = ReplyOf(s)
           /\ reply = ZeroReply

(* ------------------------------ parseOption ------------------------------ *)

\* A nil *Option.
NilOption == [nil |-> TRUE]

\* DefaultOption.ConnectTimeOut, in seconds.
DefaultConnectTimeOut == 10

\* type Option struct, with the timeouts of the client: the values a caller
\* can put in an Option it passes to Dial.
ClientOptions ==
    [MagicNumber : {MagicNumber, 0}, CodecType : {"", GobType, JsonType},
     ConnectTimeOut : ConnectTimeouts, HandleTimeOut : HandleTimeouts]

\* var DefaultOption, with the timeouts of the client.
ClientDefaultOption ==
    [MagicNumber |-> DefaultOption.MagicNumber,
     CodecType |-> DefaultOption.CodecType,
     ConnectTimeOut |-> DefaultConnectTimeOut, HandleTimeOut |-> 0]

\* The argument lists parseOption is called with: 0 .. MaxOpts pointers, each
\* nil or pointing to an Option.
OptLists ==
    UNION {[1 .. n -> ClientOptions \cup {NilOption}] : n \in 0 .. MaxOpts}

\* parseOption that leaves the CodecType of the Option alone.
parseOptionKeepsCodec(os) ==
    IF Len(os) = 0 \/ os[1] = NilOption
    THEN [opt |-> ClientDefaultOption, err |-> "nil"]
    ELSE IF Len(os) # 1
         THEN [opt |-> NilOption, err |-> "number of options is more than 1"]
         ELSE [opt |-> [os[1] EXCEPT
                           !.MagicNumber = ClientDefaultOption.MagicNumber],
               err |-> "nil"]

\* parseOption(opts ...*Option): the Option and the error it returns.
parseOption(os) ==
    IF Len(os) = 0 \/ os[1] = NilOption
    THEN [opt |-> ClientDefaultOption, err |-> "nil"]
    ELSE IF Len(os) # 1
         THEN [opt |-> NilOption, err |-> "number of options is more than 1"]
         ELSE [opt |-> [os[1] EXCEPT
                           !.MagicNumber = ClientDefaultOption.MagicNumber,
                           !.CodecType =
                               IF @ = "" THEN ClientDefaultOption.CodecType
                               ELSE @],
               err |-> "nil"]

\* What parseOption leaves in the Options its arguments point to: it writes
\* through opts[0] when that is the one Option it returns.
optsAfter(os) ==
    IF Len(os) = 1 /\ os[1] # NilOption
    THEN <<parseOption(os).opt>>
    ELSE os

NoOptRet == [opt |-> NilOption, err |-> "none"]

\* A caller about to call parseOption(list...).
OptionStart(list) ==
    /\ poPc = "call"
    /\ opts = list
    /\ poIn = list
    /\ poRet = NoOptRet
    /\ poAgain = NoOptRet

OptionInit == \E list \in OptLists : OptionStart(list)

\* No call of parseOption is modelled.
OptionIdle == OptionStart(<<>>)

\* opt, err := parseOption(opts...)
ParseOption ==
    /\ poPc = "call"
    /\ poRet' = parseOption(opts)
    /\ opts' = optsAfter(opts)
    /\ poPc' = "parsed"
    /\ UNCHANGED <<poIn, poAgain>>

\* parseOption(opt), on the Option the first call returned.
ParseOptionAgain ==
    /\ poPc = "parsed"
    /\ poRet.err = "nil"
    /\ poAgain' = parseOption(<<poRet.opt>>)
    /\ poPc' = "again"
    /\ UNCHANGED <<opts, poIn, poRet>>

\* The first call returned an error: there is no Option to go on with.
ParseOptionFails ==
    /\ poPc = "parsed"
    /\ poRet.err # "nil"
    /\ poPc' = "failed"
    /\ UNCHANGED <<opts, poIn, poRet, poAgain>>

\* parseOption has returned.
Parsed == poPc \in {"parsed", "again", "failed"}

\* What parseOption makes of one Option: the canonical MagicNumber, the
\* default codec for an empty CodecType, every other field as it was.
Normalised(o) ==
    [MagicNumber |-> MagicNumber,
     CodecType |-> IF o.CodecType = "" THEN GobType ELSE o.CodecType,
     ConnectTimeOut |-> o.ConnectTimeOut, HandleTimeOut |-> o.HandleTimeOut]

\* The parts of C29 that hold as stated: none or one nil option, exactly one
\* option, idempotence.
OptionNormalised ==
    /\ (Parsed /\ (poIn = <<>> \/ poIn = <<NilOption>>))
           => poRet = [opt |-> ClientDefaultOption, err |-> "nil"]
    /\ (Parsed /\ Len(poIn) = 1 /\ poIn[1] # NilOption)
           => poRet = [opt |-> Normalised(poIn[1]), err |-> "nil"]
    /\ poPc = "again" => poAgain = poRet

\* C29 as stated: parseOption yields the default option for no option or a
\* nil option, returns exactly one option with MagicNumber overwritten, an
\* empty CodecType defaulted and every other field kept, fails for more than
\* one option, and returns the same option when applied to its own result.
C29_ParseOptionNormalises ==
    /\ OptionNormalised
    /\ (Parsed /\ Len(poIn) > 1) => poRet.err # "nil"

\* C29, amended: as C29_ParseOptionNormalises, but more than one option is
\* an error only when the first is not nil; when the first is nil the default
\* option is returned without an error, whatever follows it.
C29_ParseOptionNormalisesFirstNil ==
    /\ OptionNormalised
    /\ (Parsed /\ Len(poIn) > 1 /\ poIn[1] # NilOption)
           => /\ poRet = [opt |-> NilOption,
                          err |-> "number of options is more than 1"]
              /\ opts = poIn
    /\ (Parsed /\ Len(poIn) > 1 /\ poIn[1] = NilOption)
           => poRet = [opt |-> ClientDefaultOption, err |-> "nil"]

\* parseOption was applied twice, starting from one Option with a wrong
\* MagicNumber, no CodecType and both timeouts set.
C29_Witness ==
    /\ poPc = "again"
    /\ Len(poIn) = 1
    /\ poIn[1] # NilOption
    /\ poIn[1].MagicNumber # MagicNumber
    /\ poIn[1].CodecType = ""
    /\ poIn[1].ConnectTimeOut # 0
    /\ poIn[1].HandleTimeOut # 0
    /\ poAgain.opt = poRet.opt
    /\ opts = <<poRet.opt>>

(* ---------------------------- specifications --------------------------- *)

\* What a step of the client leaves alone: every other subsystem.
notClient == <<dialVars, serverVars, registryVars, discoveryVars, xclientVars, broadcastVars, optionVars>>

\* What a step of dialTimeout or of its goroutine leaves alone.
notDial == <<clientVars, serverVars, registryVars, discoveryVars, xclientVars, broadcastVars, optionVars>>

\* What a step of the server leaves alone.
notServer == <<clientVars, dialVars, registryVars, discoveryVars, xclientVars, broadcastVars, optionVars>>

\* What a step of the registry or of a heartbeat leaves alone.
notRegistry == <<clientVars, dialVars, serverVars, discoveryVars, xclientVars, broadcastVars, optionVars>>

Next ==
    \/ (\E c \in Callers, api \in Apis : Go(c, api)) /\ UNCHANGED notClient
    \/ (\E c \in Callers : SendRejectDone(c)) /\ UNCHANGED notClient
    \/ (\E c \in Callers : SendWrite(c)) /\ UNCHANGED notClient
    \/ (\E c \in Callers : SendRemove(c)) /\ UNCHANGED notClient
    \/ (\E c \in Callers : SendFailDone(c)) /\ UNCHANGED notClient
    \/ (\E c \in Callers : CallDone(c)) /\ UNCHANGED notClient
    \/ (\E c \in Callers : CallCancel(c)) /\ UNCHANGED notClient
    \/ UserReceive /\ UNCHANGED notClient
    \/ Close /\ UNCHANGED notClient
    \/ ReceiveReadHeader /\ UNCHANGED notClient
    \/ ReceiveRemove /\ UNCHANGED notClient
    \/ ReceiveReadBody /\ UNCHANGED notClient
    \/ ReceiveDone /\ UNCHANGED notClient
    \/ TerminateLockSending /\ UNCHANGED notClient
    \/ TerminateLockMu /\ UNCHANGED notClient
    \/ (\E s \in Seqs : TerminateSetError(s)) /\ UNCHANGED notClient
    \/ TerminateDone /\ UNCHANGED notClient
    \/ TerminateReturn /\ UNCHANGED notClient

\* A client just built; nothing else is running.
ClientInit == Init /\ DialInit /\ ServerIdle /\ RegistryIdle /\ DiscoveryIdle /\ XClientIdle /\ BroadcastIdle /\ OptionIdle

Spec == ClientInit /\ [][Next]_vars

\* The steps the goroutines of the client take on their own: send once Go has
\* entered it, and the receive goroutine with terminateCalls.
ClientRuns ==
    \/ \E c \in Callers : SendRejectDone(c)
    \/ \E c \in Callers : SendWrite(c)
    \/ \E c \in Callers : SendRemove(c)
    \/ \E c \in Callers : SendFailDone(c)
    \/ ReceiveReadHeader
    \/ ReceiveRemove
    \/ ReceiveReadBody
    \/ ReceiveDone
    \/ TerminateLockSending
    \/ TerminateLockMu
    \/ \E s \in Seqs : TerminateSetError(s)
    \/ TerminateDone
    \/ TerminateReturn

\* The Go scheduler runs every goroutine that can take a step: send and the
\* receive goroutine do not stop while a step is possible.  Done channels get
\* free capacity: the user goes on receiving from the channel they share
\* between their Go calls.  Nothing obliges the user to call Go, Call or
\* Close, or a context to end.
FairSpec ==
    /\ Spec
    /\ WF_vars(ClientRuns /\ UNCHANGED notClient)
    /\ WF_vars(UserReceive /\ UNCHANGED notClient)

\* One call of dialTimeout and the goroutine it spawns.
DialNext ==
    \/ (\E nopts \in 0 .. MaxOpts, timeout \in ConnectTimeouts :
            DialParseOption(nopts, timeout)) /\ UNCHANGED notDial
    \/ (\E ok \in BOOLEAN : DialConnect(ok)) /\ UNCHANGED notDial
    \/ DialSpawn /\ UNCHANGED notDial
    \/ (\E res \in NewClientResults("open") : SpawnedNewClient(res))
           /\ UNCHANGED notDial
    \/ SpawnedAssignClient /\ UNCHANGED notDial
    \/ SpawnedAssignErr /\ UNCHANGED notDial
    \/ SpawnedSeesReturn /\ UNCHANGED notDial
    \/ DialHandOff /\ UNCHANGED notDial
    \/ DialTimerFires /\ UNCHANGED notDial
    \/ DialReturnTimeoutClient /\ UNCHANGED notDial
    \/ DialReturnTimeoutErr /\ UNCHANGED notDial
    \/ DialReturn /\ UNCHANGED notDial
    \/ DialDeferCloseIsReturn /\ UNCHANGED notDial
    \/ DialDeferCheckErr /\ UNCHANGED notDial
    \/ DialExitClient /\ UNCHANGED notDial
    \/ DialExitErr /\ UNCHANGED notDial

SpecDial == ClientInit /\ [][DialNext]_vars

\* The Go scheduler runs every goroutine that can take a step, and a started
\* timer fires: dialTimeout and its goroutine do not stop while a step is
\* possible.
FairSpecDial == SpecDial /\ WF_vars(DialNext)

\* One accepted connection, its handlers and workers, and Register.
ServerNext ==
    \/ ServeConn /\ UNCHANGED notServer
    \/ ServeReadRequest /\ UNCHANGED notServer
    \/ ServeRespondLock /\ UNCHANGED notServer
    \/ ServeRespondWrite /\ UNCHANGED notServer
    \/ ServeWait /\ UNCHANGED notServer
    \/ (\E r \in Reqs : HandleStart(r)) /\ UNCHANGED notServer
    \/ (\E r \in Reqs, err \in {"nil", "methodErr"} : WorkerCall(r, err))
           /\ UNCHANGED notServer
    \/ (\E r \in Reqs : WorkerSeesReturn(r)) /\ UNCHANGED notServer
    \/ (\E r \in Reqs : HandleCalled(r)) /\ UNCHANGED notServer
    \/ (\E r \in Reqs : WorkerLock(r)) /\ UNCHANGED notServer
    \/ (\E r \in Reqs : WorkerWrite(r)) /\ UNCHANGED notServer
    \/ (\E r \in Reqs : HandleSent(r)) /\ UNCHANGED notServer
    \/ (\E r \in Reqs : HandleTimerFires(r)) /\ UNCHANGED notServer
    \/ (\E r \in Reqs : HandleTimeoutLock(r)) /\ UNCHANGED notServer
    \/ (\E r \in Reqs : HandleTimeoutWrite(r)) /\ UNCHANGED notServer
    \/ (\E r \in Reqs : HandleReturn(r)) /\ UNCHANGED notServer
    \/ (\E rcvr \in Rcvrs : Register(rcvr)) /\ UNCHANGED notServer

\* A connection just accepted; nothing else is running.
ConnectionInit == Init /\ DialInit /\ ServerInit /\ RegistryIdle /\ DiscoveryIdle /\ XClientIdle /\ BroadcastIdle /\ OptionIdle

SpecServer == ConnectionInit /\ [][ServerNext]_vars

\* The Go scheduler runs every goroutine that can take a step, and a started
\* timer fires: the goroutines of the connection do not stop while one of
\* them can take a step.  Nothing obliges anybody to call Register.
FairSpecServer == SpecServer /\ WF_vars(ServerNext /\ UNCHANGED regLog)

\* A registry, the requests of its HTTP clients, one Heartbeat, the clock.
RegistryNext ==
    \/ (\E method \in Methods \ {"POST"} : HTTPRequest(method, NoAddr))
           /\ UNCHANGED notRegistry
    \/ (\E addr \in Addrs \cup {NoAddr} : HTTPRequest("POST", addr))
           /\ UNCHANGED notRegistry
    \/ Tick /\ UNCHANGED notRegistry
    \/ (\E duration \in Durations, err \in {"nil", "doErr"}, served \in BOOLEAN :
            Heartbeat(duration, err, served)) /\ UNCHANGED notRegistry
    \/ HeartbeatLoop /\ UNCHANGED notRegistry
    \/ (\E err \in {"nil", "doErr"}, served \in BOOLEAN :
            HeartbeatTick(err, served)) /\ UNCHANGED notRegistry

\* A registry just built; nothing else is running.
RegistryOnlyInit == Init /\ DialInit /\ ServerIdle /\ RegistryInit /\ DiscoveryIdle /\ XClientIdle /\ BroadcastIdle /\ OptionIdle

SpecRegistry == RegistryOnlyInit /\ [][RegistryNext]_vars

\* What a step of the discovery leaves alone.
notDiscovery == <<clientVars, dialVars, serverVars, registryVars, xclientVars, broadcastVars, optionVars>>

\* One Discovery, the goroutines calling its methods, the clock.
DiscoveryNext ==
    \/ (\E list \in ServerLists : Update(list)) /\ UNCHANGED notDiscovery
    \/ (\E ok \in BOOLEAN, answer \in Answers :
            /\ Replies(ok, answer)
            /\ Refresh(answer, ok)) /\ UNCHANGED notDiscovery
    \/ (\E mode \in SelectModes : Get(mode)) /\ UNCHANGED notDiscovery
    \/ GetAll /\ UNCHANGED notDiscovery
    \/ (\E op \in {"Get", "GetAll"}, mode \in SelectModes,
           ok \in BOOLEAN, answer \in Answers :
            /\ op = "GetAll" => mode = RandomSelect
            /\ Replies(ok, answer)
            /\ CenterRefresh(op, mode, answer, ok)) /\ UNCHANGED notDiscovery
    \/ CenterGet /\ UNCHANGED notDiscovery
    \/ CenterGetAll /\ UNCHANGED notDiscovery
    \/ DiscoveryTick /\ UNCHANGED notDiscovery

\* A discovery just built; nothing else is running.
DiscoveryOnlyInit == Init /\ DialInit /\ ServerIdle /\ RegistryIdle /\ DiscoveryInit /\ XClientIdle /\ BroadcastIdle /\ OptionIdle

SpecDiscovery == DiscoveryOnlyInit /\ [][DiscoveryNext]_vars

\* What a step on the XClient leaves alone.
notXClient == <<clientVars, dialVars, serverVars, registryVars, discoveryVars, broadcastVars, optionVars>>

\* One XClient, the goroutines calling dial, Call and Close on it, and the
\* clients it built.
XClientNext ==
    \/ (\E g \in XCallers, addr \in RpcAddrs : XcDial(g, addr))
           /\ UNCHANGED notXClient
    \/ (\E g \in XCallers : XcDialLock(g)) /\ UNCHANGED notXClient
    \/ (\E g \in XCallers : XcDialLookup(g)) /\ UNCHANGED notXClient
    \/ (\E g \in XCallers, ok \in BOOLEAN : XcDialXDial(g, ok))
           /\ UNCHANGED notXClient
    \/ (\E g \in XCallers : XcDialReturn(g)) /\ UNCHANGED notXClient
    \/ (\E g \in XCallers, addr \in RpcAddrs, ok \in BOOLEAN :
            XcCallGet(g, addr, ok)) /\ UNCHANGED notXClient
    \/ (\E g \in XCallers, ok \in BOOLEAN : XcCallXDial(g, ok))
           /\ UNCHANGED notXClient
    \/ (\E g \in XCallers, err \in {"nil", "callErr"} : XcCallInvoke(g, err))
           /\ UNCHANGED notXClient
    \/ XcClose /\ UNCHANGED notXClient
    \/ (\E c \in ClientIds : ClientShutsDown(c)) /\ UNCHANGED notXClient

\* An XClient just built; nothing else is running.
XClientOnlyInit == Init /\ DialInit /\ ServerIdle /\ RegistryIdle /\ DiscoveryIdle /\ XClientInit /\ BroadcastIdle /\ OptionIdle

SpecXClient == XClientOnlyInit /\ [][XClientNext]_vars

\* What a step of a Broadcast leaves alone.
notBroadcast == <<clientVars, dialVars, serverVars, registryVars, discoveryVars,
                  xclientVars, optionVars>>

\* One Broadcast, the goroutines it starts, and the receive goroutines of
\* the clients they call.
BroadcastNext ==
    \/ (\E ok \in BOOLEAN, n \in 0 .. NumServers : BcGetAll(ok, n))
           /\ UNCHANGED notBroadcast
    \/ BcSpawn /\ UNCHANGED notBroadcast
    \/ BcRangeEnd /\ UNCHANGED notBroadcast
    \/ BcWait /\ UNCHANGED notBroadcast
    \/ (\E t \in Tasks : TaskClone(t)) /\ UNCHANGED notBroadcast
    \/ (\E t \in Tasks, ok \in BOOLEAN : TaskXDial(t, ok))
           /\ UNCHANGED notBroadcast
    \/ (\E t \in Tasks, ok \in BOOLEAN : TaskGo(t, ok))
           /\ UNCHANGED notBroadcast
    \/ (\E t \in Tasks, err \in {"nil", "replyErr", "connErr"} :
            TaskReceive(t, err)) /\ UNCHANGED notBroadcast
    \/ (\E t \in Tasks : TaskSelectDone(t)) /\ UNCHANGED notBroadcast
    \/ (\E t \in Tasks : TaskSelectCancel(t)) /\ UNCHANGED notBroadcast
    \/ ParentCancels /\ UNCHANGED notBroadcast
    \/ (\E t \in Tasks : TaskLock(t)) /\ UNCHANGED notBroadcast
    \/ (\E t \in Tasks : TaskRecord(t)) /\ UNCHANGED notBroadcast
    \/ (\E t \in Tasks : TaskExit(t)) /\ UNCHANGED notBroadcast

\* A Broadcast just called; nothing else is running.
BroadcastOnlyInit == Init /\ DialInit /\ ServerIdle /\ RegistryIdle /\ DiscoveryIdle /\ XClientIdle /\ BroadcastInit /\ OptionIdle

SpecBroadcast == BroadcastOnlyInit /\ [][BroadcastNext]_vars

\* What a call of parseOption leaves alone.
notOption == <<clientVars, dialVars, serverVars, registryVars, discoveryVars,
               xclientVars, broadcastVars>>

\* parseOption called once and then on its own result.
OptionNext ==
    \/ ParseOption /\ UNCHANGED notOption
    \/ ParseOptionAgain /\ UNCHANGED notOption
    \/ ParseOptionFails /\ UNCHANGED notOption

\* A caller about to call parseOption; nothing else is running.
OptionOnlyInit == Init /\ DialInit /\ ServerIdle /\ RegistryIdle /\ DiscoveryIdle /\ XClientIdle /\ BroadcastIdle /\ OptionInit

SpecOption == OptionOnlyInit /\ [][OptionNext]_vars

====
